---- MODULE Spec2Model ----
(***************************************************************************)
(* Model of the automation worker of the referral app: the job queue       *)
(* (table automation_jobs), the audit log (table automation_logs), the     *)
(* JobProcessor poll loop with its failure handling and shutdown, and the  *)
(* part of ActionstepBot the poll loop depends on (browser handle and      *)
(* login flag). Spec follows the processor with the execution of a job as  *)
(* one step; BotSpec follows the bot step by step (login, 2FA, session     *)
(* expiry, navigation, form, screenshots) under a processor whose store    *)
(* operations succeed. CallSpec follows single calls of the bot's methods  *)
(* (init, close, setOriginationFee field by field) on a page whose form    *)
(* and whose arguments are drawn from small sets.                          *)
(*                                                                         *)
(* Every await of the JavaScript source is a point where another callback  *)
(* (the stop() call of the signal handler, a producer's insert) may run,   *)
(* so processNextJob is split at its awaits: pc names the await the poll   *)
(* loop is suspended at.                                                   *)
(***************************************************************************)
EXTENDS Integers, Sequences, FiniteSets, TLC

VARIABLES
    jobs,           \* table automation_jobs: sequence of rows, index = id
    logs,           \* table automation_logs: sequence of rows, in insert order
    now,            \* the store's clock: the number of ticks that found a job
    isRunning,      \* JobProcessor.isRunning
    isProcessing,   \* JobProcessor.isProcessing
    pc,             \* where the poll loop is suspended
    job,            \* local `job` of processNextJob (row as read by the SELECT)
    error,          \* local `error` of the catch block: {} or {message}
    browser,        \* ActionstepBot.browser / page: "none" (null) or "open"
    isLoggedIn,     \* ActionstepBot.isLoggedIn
    stopPc,         \* where stop() is suspended
    storeFaults,    \* number of store operations that have failed so far
    hist,           \* history: per job, claims, successful executions,
                    \* executions whose login stopped at 2FA without a secret
                    \* and clicks on Save
    tick,           \* history of the current tick (see NoTick)
    url,            \* ActionstepBot.page.url(): the URL the page shows
    totpSecret,     \* ActionstepBot.totpSecret is configured
    bpc,            \* where a method of the bot is suspended ("idle": nowhere)
    ret,            \* the caller the running login() returns to
    totpInput,      \* local `totpInput` of login(): a 2FA input was found
    lg,             \* history of the last call of login() (see NoLogin)
    exec,           \* history of the last call of processJob (see NoExec)
    feeJob,         \* the columns of the job processJob passes to the form
    referrerName,   \* parameter referrerName of setOriginationFee
    percentage,     \* parameter percentage of setOriginationFee
    form,           \* the billing form of the page (see Forms)
    fpc,            \* where setOriginationFee is suspended ("idle": nowhere)
    call,           \* history of the last call of setOriginationFee
    closeLog,       \* history of the calls of close() (see NoClose)
    dialogs,        \* the 'dialog' listeners of the page (see NoDialogs)
    maxConcurrent,  \* JobProcessor.maxConcurrent
    peer,           \* a second JobProcessor on the same tables (see NoPeer)
    hooks           \* the set-origination-fee requests in flight and the
                    \* jobs they have created (see NoHooks)

\* the form and the single calls of the bot's methods
callVars ==
    <<feeJob, referrerName, percentage, form, fpc, call, closeLog, dialogs>>

\* the state of the bot that only the step-by-step model of the bot uses
\* the configuration and what runs beside the worker on the same tables
fleetVars == <<maxConcurrent, peer, hooks>>

botVars ==
    <<url, totpSecret, bpc, ret, totpInput, lg, exec, callVars, fleetVars>>

vars == <<jobs, logs, now, isRunning, isProcessing, pc, job, error, browser,
          isLoggedIn, stopPc, storeFaults, hist, tick, botVars>>

(***************************************************************************)
(* Bounds of the model.                                                    *)
(***************************************************************************)
MaxJobs == 2
MaxAttempts == 2
MaxStoreFaults == 1
\* jobs the producer inserts while the bot is followed step by step
MaxBotJobs == 1
\* max_attempts of those jobs: up to the default of the column
MaxBotAttempts == 3
\* calls of close() that are followed one by one
MaxCloses == 2
\* jobs the producer inserts while the scheduling is fair
MaxLiveJobs == 1
\* set-origination-fee requests between their SELECT and their INSERT
MaxHooks == 2
\* the largest MAX_CONCURRENT_JOBS the worker is configured with
MaxConcurrent == 2
\* 'dialog' listeners a page holds before no further save is followed
MaxListeners == 2

(***************************************************************************)
(* Values.                                                                 *)
(***************************************************************************)
\* SQL NULL; a nullable column holds {} or {value}
NULL == {}

\* An error message is a sequence of fragments; includes() is membership.
Includes(msg, fragment) == \E i \in 1..Len(msg) : msg[i] = fragment

TimeoutError == <<"Could not load billing settings: ", "Navigation timeout">>
TargetClosedError == <<"Could not load billing settings: ", "Target closed">>
LoginFailedError == <<"Login failed: ", "Could not find login form inputs">>
NotLoggedInError == <<"Not logged in">>
StoreError == <<"Error connecting to database">>

\* the result of a call that returned normally: no message
NoError == <<>>

\* the failures the remote UI or the browser can cause inside processJob
RemoteErrors ==
    {TimeoutError, TargetClosedError}

NoJob == [id |-> 0, attempts |-> 0, max_attempts |-> 0]

\* history of one tick: what the execution returned, whether a store
\* operation of the tick failed, how the relaunch after a crash went, the
\* length of the log when the tick started, and the number of jobs the
\* tick has claimed
NoTick ==
    [exec |-> "none", storeFault |-> FALSE, relaunch |-> "none", logMark |-> 0,
     claimed |-> 0]

\* history of one call of login(): whether it is running, has returned or
\* has thrown, isLoggedIn when it was called, whether a TOTP code was typed
\* and submitted, and whether it stopped at a 2FA input without a secret
NoLogin ==
    [state |-> "none", before |-> FALSE, typed |-> FALSE, submitted |-> FALSE,
     noSecret |-> FALSE]

\* history of one call of processJob: ensureLoggedIn has returned normally,
\* a session expiry was detected, a login() of the call threw, a step other
\* than login failed, the Save button was clicked
NoExec ==
    [ensured |-> FALSE, expired |-> FALSE, loginFailed |-> FALSE,
     fault |-> FALSE, saved |-> FALSE]

(***************************************************************************)
(* URLs and messages of the bot. A URL is the sequence of the tokens of    *)
(* its path; includes() on URLs is the test for a contiguous subsequence.  *)
(***************************************************************************)
UrlIncludes(u, pattern) ==
    \E i \in 1..(Len(u) - Len(pattern) + 1) :
        SubSeq(u, i, i + Len(pattern) - 1) = pattern

BlankUrl == <<"about:blank">>
LoginUrl == <<"/", "auth", "/", "login">>
LoginMfaUrl == <<"/", "auth", "/", "login", "-", "mfa">>
MfaUrl == <<"/", "mfa", "/", "verify">>
SigninUrl == <<"/", "signin">>
AuthenticateUrl == <<"/", "authenticate">>
LaunchPadUrl == <<"/", "mym", "/", "asfw", "/", "launch-pad">>
BillingUrl == <<"/", "mym", "/", "asfw", "/", "bill-settings">>

\* where the remote site may leave the page after a navigation
Urls ==
    {LoginUrl, LoginMfaUrl, MfaUrl, SigninUrl, AuthenticateUrl, LaunchPadUrl,
     BillingUrl}

\* const isMfaPage = currentUrl.includes('login-mfa') || currentUrl.includes('/mfa')
IsMfaPage(u) ==
    \/ UrlIncludes(u, <<"login", "-", "mfa">>)
    \/ UrlIncludes(u, <<"/", "mfa">>)

\* the final test of login() without its '/signin' pattern
StillOnAuthPageNoSignin(u) ==
    \/ UrlIncludes(u, <<"/", "auth", "/", "login">>)
    \/ UrlIncludes(u, <<"login", "-", "mfa">>)
    \/ UrlIncludes(u, <<"/", "authenticate">>)

\* the final test of login(): still on a login or MFA page
StillOnAuthPage(u) ==
    \/ UrlIncludes(u, <<"/", "auth", "/", "login">>)
    \/ UrlIncludes(u, <<"login", "-", "mfa">>)
    \/ UrlIncludes(u, <<"/", "signin">>)
    \/ UrlIncludes(u, <<"/", "authenticate">>)

\* ActionstepBot.isOnLoginPage(); b is the browser handle (no page: true)
isOnLoginPage(b, u) ==
    \/ b = "none"
    \/ UrlIncludes(u, <<"/", "auth", "/", "login">>)
    \/ UrlIncludes(u, <<"/", "signin">>)
    \/ UrlIncludes(u, <<"/", "authenticate">>)
    \/ UrlIncludes(u, <<"login", "-", "mfa">>)

\* what a call of the browser API throws
NavigationTimeout == <<"Navigation timeout">>
TargetClosed == <<"Target closed">>
PageErrors == {NavigationTimeout, TargetClosed}

\* page.screenshot() throws
ScreenshotError == <<"Protocol error (Page.captureScreenshot)">>
ShotResults == {NoError, ScreenshotError}

\* what the code of the bot throws
NoInputsError == <<"Could not find login form inputs">>
TwoFactorError == <<"2FA required but ACTIONSTEP_TOTP_SECRET not configured">>
StillOnMfaError == <<"Still on MFA page after submitting code">>
StillOnAuthError == <<"Login failed - still on authentication page">>
NullPageError == <<"Cannot read properties of null">>
CheckboxError == <<"Origination fee checkbox not found">>
SaveButtonError == <<"Save button not found">>

\* what a step of setOriginationFee may throw
FeeErrors == {CheckboxError, SaveButtonError, TargetClosed}

\* throw new Error(`Login failed: ${error.message}`)
LoginFailed(msg) == <<"Login failed: ">> \o msg

\* throw new Error(`Could not load billing settings: ${error.message}`)
CouldNotLoad(msg) == <<"Could not load billing settings: ">> \o msg

(***************************************************************************)
(* The billing form and the arguments of setOriginationFee. A name (the    *)
(* title of an option, the referrer of a job) is the sequence of its       *)
(* words; a decimal text (the DECIMAL column as the store returns it, the  *)
(* text typed into a field) is its integer part and the sequence of its    *)
(* fraction digits; a number is held in thousandths.                       *)
(***************************************************************************)
JaneSmith == <<"Jane", "Smith">>
JaneSmithLower == <<"jane", "smith">>
Jane == <<"Jane">>
BobLee == <<"Bob", "Lee">>

\* referrer_name of a job
Names == {JaneSmith, JaneSmithLower, Jane}

\* the options of #originator_fee_participant_id the page may show
NoOptions == <<>>
TwoOptions ==
    <<[value |-> 1, title |-> BobLee], [value |-> 2, title |-> JaneSmith]>>
NearOptions ==
    <<[value |-> 1, title |-> JaneSmithLower],
      [value |-> 2, title |-> JaneSmith]>>
ManyOptions == [i \in 1..12 |-> [value |-> i, title |-> <<"Staff", ToString(i)>>]]
OptionLists == {NoOptions, TwoOptions, NearOptions, ManyOptions}

Min(a, b) == IF a < b THEN a ELSE b

\* options.find(opt => opt.title === name) with a comparison that ignores
\* the case of the letters
LowerWord(w) ==
    CASE w = "Jane" -> "jane"
      [] w = "Smith" -> "smith"
      [] w = "Bob" -> "bob"
      [] w = "Lee" -> "lee"
      [] w = "Staff" -> "staff"
      [] OTHER -> w
Lower(name) == [i \in 1..Len(name) |-> LowerWord(name[i])]
FindOptionIgnoringCase(options, name) ==
    LET hits == {i \in 1..Len(options) : Lower(options[i].title) = Lower(name)}
    IN IF hits = {} THEN 0 ELSE CHOOSE i \in hits : \A k \in hits : i <= k

\* options.find(opt => opt.title === name): the index of the first option
\* whose title is the name, 0 when find returns undefined
FindOption(options, name) ==
    LET hits == {i \in 1..Len(options) : options[i].title = name}
    IN IF hits = {} THEN 0 ELSE CHOOSE i \in hits : \A k \in hits : i <= k

\* options.map(opt => opt.title).slice(0, 10)
AvailableOptions(options) ==
    [i \in 1..Min(10, Len(options)) |-> options[i].title]

\* page.select(selector, value) on a single select: the first option of
\* that value becomes the selected one
SelectByValue(options, value) ==
    LET hits == {i \in 1..Len(options) : options[i].value = value}
    IN IF hits = {} THEN 0 ELSE CHOOSE i \in hits : \A k \in hits : i <= k

\* origination_percentage of a job, as the store returns the DECIMAL column
PercentTexts ==
    {[int |-> 10, frac |-> <<>>], [int |-> 7, frac |-> <<5>>],
     [int |-> 10, frac |-> <<0, 0>>], [int |-> 100, frac |-> <<>>],
     [int |-> 0, frac |-> <<0, 1>>], [int |-> 33, frac |-> <<3, 3>>],
     [int |-> 12, frac |-> <<3, 4, 6>>]}

\* the fraction digits of a text, as thousandths
Thousandths(frac) ==
    (IF Len(frac) >= 1 THEN frac[1] * 100 ELSE 0)
    + (IF Len(frac) >= 2 THEN frac[2] * 10 ELSE 0)
    + (IF Len(frac) >= 3 THEN frac[3] ELSE 0)

\* parseFloat of a decimal text of at most three fraction digits
ParseFloat(text) == text.int * 1000 + Thousandths(text.frac)

\* String(number), the text parseFloat(number) parses: the shortest decimal
\* text of the number
NumberToString(n) ==
    LET f == n % 1000 IN
    [int |-> n \div 1000,
     frac |-> IF f = 0 THEN <<>>
              ELSE IF f % 100 = 0 THEN <<f \div 100>>
              ELSE IF f % 10 = 0 THEN <<f \div 100, (f \div 10) % 10>>
              ELSE <<f \div 100, (f \div 10) % 10, f % 10>>]

\* Number.prototype.toFixed with one fraction digit
ToFixed1(n) ==
    LET t == (n + 50) \div 100 IN
    [int |-> t \div 10, frac |-> <<t % 10>>]

\* Number.prototype.toFixed(2): the number rounded to hundredths, written
\* with two fraction digits (no number of the model lies halfway)
ToFixed2(n) ==
    LET h == (n + 5) \div 10 IN
    [int |-> h \div 100, frac |-> <<(h \div 10) % 10, h % 10>>]

\* the form of the billing page: the checkbox #originator_fee_enabled, the
\* options and the selected value of #originator_fee_participant_id (0: no
\* staff member), the texts in #originator_fee_percent
OldPercent == [int |-> 5, frac |-> <<0, 0>>]
Forms ==
    [checked : BOOLEAN, options : OptionLists, selected : {0},
     field : {<<>>, <<OldPercent>>}]

\* history of one call of setOriginationFee: what it did to the form in
\* order, the titles it printed, how it ended and the error it threw
NoCall ==
    [events |-> <<>>, reported |-> <<>>, state |-> "none", error |-> NoError]

\* history of the calls of close(): the browser handle each of them found,
\* in order, and whether the last one threw
NoClose == [found |-> <<>>, threw |-> FALSE]

\* the listeners page.once('dialog', ...) has registered on the page and
\* that no dialog has consumed yet, and the number of listeners that called
\* accept() on the last dialog
NoDialogs == [armed |-> 0, accepts |-> 0]

\* what the code of setOriginationFee throws
StaffNotFoundError == <<"Staff member ", "not found in dropdown">>
PercentInputError == <<"Percentage input field not found">>

(***************************************************************************)
(* The store: automation_jobs and automation_logs.                         *)
(***************************************************************************)
JobIds == 1..Len(jobs)

\* what a producer asks for: the NOT NULL columns without a default
Requests ==
    {[matter_id |-> "M-1", client_participant_id |-> "P-1",
      referrer_name |-> JaneSmith,
      origination_percentage |-> [int |-> 7, frac |-> <<5>>]]}

\* INSERT of a producer, with the column defaults of the schema
NewJobRow(req, maxAttempts) ==
    [matter_id |-> req.matter_id,
     client_participant_id |-> req.client_participant_id,
     referrer_name |-> req.referrer_name,
     origination_percentage |-> req.origination_percentage,
     status |-> "pending", error_message |-> NULL, attempts |-> 0,
     max_attempts |-> maxAttempts, created_at |-> now,
     started_at |-> NULL, completed_at |-> NULL]

\* WHERE status IN ('pending', 'processing')
PendingOrProcessing ==
    {j \in JobIds : jobs[j].status \in {"pending", "processing"}}

\* WHERE status = 'pending'
Pending == {j \in JobIds : jobs[j].status = "pending"}

\* ORDER BY created_at ASC LIMIT 1: the rows the SELECT may return. Rows of
\* equal created_at have no defined order, the store may return any of them.
NextPending ==
    {j \in Pending : \A k \in Pending : jobs[j].created_at <= jobs[k].created_at}

\* updateJobStatus with a 'completed' branch that leaves error_message alone
UpdateJobStatusKeepsError(jobId, status, errorMessage) ==
    IF status = "completed"
    THEN [jobs EXCEPT ![jobId].status = status,
                      ![jobId].completed_at = {now}]
    ELSE IF status = "processing"
    THEN [jobs EXCEPT ![jobId].status = status,
                      ![jobId].started_at = {now}]
    ELSE [jobs EXCEPT ![jobId].status = status,
                      ![jobId].error_message = errorMessage,
                      ![jobId].completed_at =
                          IF status = "failed" THEN {now} ELSE NULL]

\* updateJobStatus with a last branch that never stamps completed_at
UpdateJobStatusNoStamp(jobId, status, errorMessage) ==
    IF status = "completed"
    THEN [jobs EXCEPT ![jobId].status = status,
                      ![jobId].completed_at = {now},
                      ![jobId].error_message = NULL]
    ELSE IF status = "processing"
    THEN [jobs EXCEPT ![jobId].status = status,
                      ![jobId].started_at = {now}]
    ELSE [jobs EXCEPT ![jobId].status = status,
                      ![jobId].error_message = errorMessage,
                      ![jobId].completed_at = NULL]

UpdateJobStatus(jobId, status, errorMessage) ==
    IF status = "completed"
    THEN [jobs EXCEPT ![jobId].status = status,
                      ![jobId].completed_at = {now},
                      ![jobId].error_message = NULL]
    ELSE IF status = "processing"
    THEN [jobs EXCEPT ![jobId].status = status,
                      ![jobId].started_at = {now}]
    ELSE \* the parameter 'NOW()' is read by the timestamptz column as now
         [jobs EXCEPT ![jobId].status = status,
                      ![jobId].error_message = errorMessage,
                      ![jobId].completed_at =
                          IF status = "failed" THEN {now} ELSE NULL]

\* the UPDATE of the retry branch without its error_message column
RetryUpdateDropsError(jobId, newAttempts, errorMessage) ==
    [jobs EXCEPT ![jobId].status = "pending",
                 ![jobId].attempts = newAttempts]

\* the UPDATE of the retry branch without its WHERE clause
RetryUpdateEveryRow(jobId, newAttempts, errorMessage) ==
    [j \in JobIds |-> [jobs[j] EXCEPT !.status = "pending",
                                      !.attempts = newAttempts,
                                      !.error_message = errorMessage]]

\* the UPDATE of the retry branch
RetryUpdate(jobId, newAttempts, errorMessage) ==
    [jobs EXCEPT ![jobId].status = "pending",
                 ![jobId].attempts = newAttempts,
                 ![jobId].error_message = errorMessage]

LogRow(jobId, action, status, detail) ==
    [job_id |-> jobId, action |-> action, status |-> status,
     detail |-> detail, triggered_by |-> "automation"]

logSuccess(j) == Append(logs, LogRow(j.id, "origination_fee_set", "success", NULL))

logError(j, err) == Append(logs, LogRow(j.id, "failed", "error", err))

logWarning(j, message) == Append(logs, LogRow(j.id, "retry", "warning", message))

(***************************************************************************)
(* The bot, as far as the processor depends on it.                         *)
(***************************************************************************)
\* the crash test of the catch block
IsCrash(msg) ==
    \/ Includes(msg, "Target closed")
    \/ Includes(msg, "Session closed")
    \/ Includes(msg, "Browser closed")

\* close() that drops the browser and the page but keeps the login flag
BotCloseKeepsLogin(b, l, closeThrows) ==
    IF b # "none" /\ ~closeThrows
    THEN [browser |-> "none", isLoggedIn |-> l]
    ELSE [browser |-> b, isLoggedIn |-> l]

\* ActionstepBot.close(): a no-op without a browser; when browser.close()
\* throws the fields keep their values
BotClose(b, l, closeThrows) ==
    IF b # "none" /\ ~closeThrows
    THEN [browser |-> "none", isLoggedIn |-> FALSE]
    ELSE [browser |-> b, isLoggedIn |-> l]

\* ActionstepBot.init(): launch, then login; res is what the environment
\* lets happen
BotInit(b, l, res) ==
    IF res = "ok" THEN [browser |-> "open", isLoggedIn |-> TRUE]
    ELSE IF res = "loginFail" THEN [browser |-> "open", isLoggedIn |-> l]
    ELSE [browser |-> b, isLoggedIn |-> l]

InitResults == {"ok", "launchFail", "loginFail"}

\* ensureLoggedIn followed by navigateToMatter and setOriginationFee:
\* the value is the bot's login flag afterwards and the result, NoError or
\* the message of the error thrown
RunJob(b, l, expired, loginOk, remote) ==
    IF b = "none" \/ expired
    THEN \* on a login page (or no page): isLoggedIn = false, login()
         IF b # "none" /\ loginOk
         THEN [isLoggedIn |-> TRUE, result |-> remote]
         ELSE [isLoggedIn |-> FALSE, result |-> LoginFailedError]
    ELSE IF ~l
    THEN [isLoggedIn |-> l, result |-> NotLoggedInError]
    ELSE [isLoggedIn |-> l, result |-> remote]

(***************************************************************************)
(* Initial state: the tables are empty, the processor is constructed.      *)
(***************************************************************************)
Constructed ==
    /\ jobs = <<>>
    /\ logs = <<>>
    /\ now = 0
    /\ isRunning = FALSE
    /\ isProcessing = FALSE
    /\ pc = "new"
    /\ job = NoJob
    /\ error = NULL
    /\ browser = "none"
    /\ isLoggedIn = FALSE
    /\ stopPc = "none"
    /\ storeFaults = 0
    /\ hist = <<>>
    /\ tick = NoTick
    /\ url = BlankUrl
    /\ totpSecret \in BOOLEAN
    /\ bpc = "idle"
    /\ ret = "none"
    /\ totpInput = FALSE
    /\ lg = NoLogin
    /\ exec = NoExec

\* a second instance that has not selected anything yet: where its poll
\* loop is suspended, its local `job`, the local `error` of its catch block
NoPeer == [pc |-> "sleep", job |-> NoJob, error |-> NULL]

\* no request has arrived: the requests between their SELECT and their
\* INSERT, and history: the ids of the jobs the webhook has created
NoHooks == [inserting |-> <<>>, created |-> {}]

\* the worker: no script calls the bot, the form is the blank one
NoFeeJob ==
    [referrer_name |-> <<>>, origination_percentage |-> [int |-> 0, frac |-> <<>>]]
NoForm == [checked |-> FALSE, options |-> NoOptions, selected |-> 0, field |-> <<>>]

Init ==
    /\ Constructed
    /\ feeJob = NoFeeJob
    /\ referrerName = <<>>
    /\ percentage = 0
    /\ form = NoForm
    /\ fpc = "idle"
    /\ call = NoCall
    /\ closeLog = NoClose
    /\ dialogs = NoDialogs
    /\ maxConcurrent = 1
    /\ peer = NoPeer
    /\ hooks = NoHooks

(***************************************************************************)
(* The producer.                                                           *)
(***************************************************************************)
InsertJob ==
    /\ Len(jobs) < MaxJobs
    /\ \E req \in Requests, m \in 1..MaxAttempts :
          jobs' = Append(jobs, NewJobRow(req, m))
    /\ hist' = Append(hist, [claims |-> 0, execOks |-> 0, noSecret |-> 0, saves |-> 0])
    /\ UNCHANGED <<logs, now, isRunning, isProcessing, pc, job, error, browser,
                   isLoggedIn, stopPc, storeFaults, tick,
                   botVars>>

(***************************************************************************)
(* JobProcessor.start and the poll loop.                                   *)
(***************************************************************************)
\* a call of processNextJob begins: the SELECT is issued
BeginTick == [NoTick EXCEPT !.logMark = Len(logs)]

\* processNextJob without its finally block: the flag keeps its value
EndTickKeepsFlag ==
    /\ UNCHANGED isProcessing
    /\ pc' = "sleep"

\* processNextJob that goes on to the next pending job until it has
\* claimed maxConcurrent jobs
EndTickFillsSlots ==
    /\ isProcessing' = FALSE
    /\ pc' = IF 0 < tick.claimed /\ tick.claimed < maxConcurrent
             THEN "select" ELSE "sleep"

\* the finally block, then the catch of poll(): the loop goes to sleep
EndTick ==
    /\ isProcessing' = FALSE
    /\ pc' = "sleep"

StoreFault ==
    /\ storeFaults < MaxStoreFaults
    /\ storeFaults' = storeFaults + 1
    /\ tick' = [tick EXCEPT !.storeFault = TRUE]

\* start() with a catch that only prints the error of init()
StartIgnoresInitError ==
    /\ pc = "new"
    /\ \E res \in InitResults :
          LET bot == BotInit(browser, isLoggedIn, res) IN
          /\ browser' = bot.browser
          /\ isLoggedIn' = bot.isLoggedIn
          /\ isRunning' = TRUE
          /\ pc' = "select"
          /\ tick' = BeginTick
    /\ UNCHANGED <<jobs, logs, now, isProcessing, job, error, stopPc,
                   storeFaults, hist,
                   botVars>>

\* start(): init(), whose error is rethrown; then isRunning and poll()
Start ==
    /\ pc = "new"
    /\ \E res \in InitResults :
          LET bot == BotInit(browser, isLoggedIn, res) IN
          /\ browser' = bot.browser
          /\ isLoggedIn' = bot.isLoggedIn
          /\ IF res = "ok"
             THEN /\ isRunning' = TRUE
                  /\ pc' = "select"
                  /\ tick' = BeginTick
             ELSE /\ pc' = "exited"
                  /\ UNCHANGED <<isRunning, tick>>
    /\ UNCHANGED <<jobs, logs, now, isProcessing, job, error, stopPc,
                   storeFaults, hist,
                   botVars>>

\* poll() without its try/catch: an error of processNextJob ends the loop
PollDiesOnError ==
    /\ pc = "sleep"
    /\ IF isRunning /\ ~tick.storeFault /\ tick.relaunch # "failed"
       THEN IF ~isProcessing
            THEN /\ pc' = "select"
                 /\ tick' = BeginTick
                 /\ job' = NoJob
                 /\ error' = NULL
            ELSE UNCHANGED <<pc, tick, job, error>>
       ELSE /\ pc' = "ended"
            /\ UNCHANGED <<tick, job, error>>
    /\ UNCHANGED <<jobs, logs, now, isRunning, isProcessing, browser,
                   isLoggedIn, stopPc, storeFaults, hist,
                   botVars>>

\* sleep(pollInterval) returns and the while condition is tested
Poll ==
    /\ pc = "sleep"
    /\ IF isRunning
       THEN IF ~isProcessing
            THEN /\ pc' = "select"
                 /\ tick' = BeginTick
                 /\ job' = NoJob
                 /\ error' = NULL
            ELSE UNCHANGED <<pc, tick, job, error>>
       ELSE /\ pc' = "ended"
            /\ UNCHANGED <<tick, job, error>>
    /\ UNCHANGED <<jobs, logs, now, isRunning, isProcessing, browser,
                   isLoggedIn, stopPc, storeFaults, hist,
                   botVars>>

(***************************************************************************)
(* processNextJob, one action per await.                                   *)
(***************************************************************************)
SelectFails ==
    /\ pc = "select"
    /\ StoreFault
    /\ EndTick
    /\ UNCHANGED <<jobs, logs, now, isRunning, job, error, browser, isLoggedIn,
                   stopPc, hist,
                   botVars>>

SelectEmpty ==
    /\ pc = "select"
    /\ Pending = {}
    /\ EndTick
    /\ UNCHANGED <<jobs, logs, now, isRunning, job, error, browser, isLoggedIn,
                   stopPc, storeFaults, hist, tick,
                   botVars>>

SelectJob ==
    /\ pc = "select"
    /\ \E j \in NextPending :
          job' = [id |-> j, attempts |-> jobs[j].attempts,
                  max_attempts |-> jobs[j].max_attempts]
    /\ now' = now + 1
    /\ isProcessing' = TRUE
    /\ pc' = "mark"
    /\ tick' = [tick EXCEPT !.claimed = @ + 1]
    /\ UNCHANGED <<jobs, logs, isRunning, error, browser, isLoggedIn,
                   stopPc, storeFaults, hist,
                   botVars>>

MarkProcessing ==
    /\ pc = "mark"
    /\ jobs' = UpdateJobStatus(job.id, "processing", NULL)
    /\ hist' = [hist EXCEPT ![job.id].claims = @ + 1]
    /\ pc' = "exec"
    /\ UNCHANGED <<logs, now, isRunning, isProcessing, job, error, browser,
                   isLoggedIn, stopPc, storeFaults, tick,
                   botVars>>

MarkProcessingFails ==
    /\ pc = "mark"
    /\ StoreFault
    /\ EndTick
    /\ UNCHANGED <<jobs, logs, now, isRunning, job, error, browser, isLoggedIn,
                   stopPc, hist,
                   botVars>>

\* where the catch block starts for an error of that message
CatchPc(msg) == IF IsCrash(msg) THEN "relaunch" ELSE "record"

ProcessJob ==
    /\ pc = "exec"
    /\ \E expired \in BOOLEAN, loginOk \in BOOLEAN,
          remote \in {NoError} \cup RemoteErrors :
          LET r == RunJob(browser, isLoggedIn, expired, loginOk, remote) IN
          /\ isLoggedIn' = r.isLoggedIn
          /\ IF r.result = NoError
             THEN /\ pc' = "complete"
                  /\ tick' = [tick EXCEPT !.exec = "ok"]
                  /\ hist' = [hist EXCEPT ![job.id].execOks = @ + 1]
                  /\ UNCHANGED error
             ELSE /\ pc' = CatchPc(r.result)
                  /\ tick' = [tick EXCEPT !.exec = "fail"]
                  /\ error' = {r.result}
                  /\ UNCHANGED hist
    /\ UNCHANGED <<jobs, logs, now, isRunning, isProcessing, job, browser,
                   stopPc, storeFaults,
                   botVars>>

\* the browser crashed: bot.close() with its errors ignored, then bot.init();
\* an error of init() leaves the catch block
Relaunch ==
    /\ pc = "relaunch"
    /\ \E closeThrows \in BOOLEAN, res \in InitResults :
          LET closed == BotClose(browser, isLoggedIn, closeThrows)
              bot == BotInit(closed.browser, closed.isLoggedIn, res) IN
          /\ browser' = bot.browser
          /\ isLoggedIn' = bot.isLoggedIn
          /\ IF res = "ok"
             THEN /\ pc' = "record"
                  /\ tick' = [tick EXCEPT !.relaunch = "ok"]
                  /\ UNCHANGED isProcessing
             ELSE /\ EndTick
                  /\ tick' = [tick EXCEPT !.relaunch = "failed"]
    /\ UNCHANGED <<jobs, logs, now, isRunning, job, error, stopPc,
                   storeFaults, hist,
                   botVars>>

MarkCompleted ==
    /\ pc = "complete"
    /\ jobs' = UpdateJobStatus(job.id, "completed", NULL)
    /\ pc' = "logSuccess"
    /\ UNCHANGED <<logs, now, isRunning, isProcessing, job, error, browser,
                   isLoggedIn, stopPc, storeFaults, hist, tick,
                   botVars>>

\* the UPDATE to 'completed' throws inside the inner try
MarkCompletedFails ==
    /\ pc = "complete"
    /\ StoreFault
    /\ error' = {StoreError}
    /\ pc' = CatchPc(StoreError)
    /\ UNCHANGED <<jobs, logs, now, isRunning, isProcessing, job, browser,
                   isLoggedIn, stopPc, hist,
                   botVars>>

LogSuccess ==
    /\ pc = "logSuccess"
    /\ logs' = logSuccess(job)
    /\ EndTick
    /\ UNCHANGED <<jobs, now, isRunning, job, error, browser, isLoggedIn,
                   stopPc, storeFaults, hist, tick,
                   botVars>>

\* the INSERT of logSuccess throws inside the inner try
LogSuccessFails ==
    /\ pc = "logSuccess"
    /\ StoreFault
    /\ error' = {StoreError}
    /\ pc' = CatchPc(StoreError)
    /\ UNCHANGED <<jobs, logs, now, isRunning, isProcessing, job, browser,
                   isLoggedIn, stopPc, hist,
                   botVars>>

\* const newAttempts = job.attempts + 1
NewAttempts(j) == j.attempts + 1

\* the test of the catch block with > for >=
BranchOneTooMany(j) ==
    IF NewAttempts(j) > j.max_attempts THEN "failed" ELSE "retry"

\* which branch the catch block takes for the job read by the SELECT
Branch(j) == IF NewAttempts(j) >= j.max_attempts THEN "failed" ELSE "retry"

RecordFailure ==
    /\ pc = "record"
    /\ IF Branch(job) = "failed"
       THEN /\ jobs' = UpdateJobStatus(job.id, "failed", error)
            /\ pc' = "logError"
       ELSE /\ jobs' = RetryUpdate(job.id, NewAttempts(job), error)
            /\ pc' = "logWarning"
    /\ UNCHANGED <<logs, now, isRunning, isProcessing, job, error, browser,
                   isLoggedIn, stopPc, storeFaults, hist, tick,
                   botVars>>

\* the UPDATE of either branch throws: the error leaves processNextJob
RecordFailureFails ==
    /\ pc = "record"
    /\ StoreFault
    /\ EndTick
    /\ UNCHANGED <<jobs, logs, now, isRunning, job, error, browser, isLoggedIn,
                   stopPc, hist,
                   botVars>>

LogError ==
    /\ pc = "logError"
    /\ logs' = logError(job, error)
    /\ EndTick
    /\ UNCHANGED <<jobs, now, isRunning, job, error, browser, isLoggedIn,
                   stopPc, storeFaults, hist, tick,
                   botVars>>

\* the retry branch going straight back to the SELECT, without the sleep
LogWarningRetriesAtOnce ==
    /\ pc = "logWarning"
    /\ logs' = logWarning(job, error)
    /\ isProcessing' = FALSE
    /\ pc' = "select"
    /\ UNCHANGED <<jobs, now, isRunning, job, error, browser, isLoggedIn,
                   stopPc, storeFaults, hist, tick,
                   botVars>>

\* the INSERT of the retry branch succeeds: processNextJob returns
LogWarning ==
    /\ pc = "logWarning"
    /\ logs' = logWarning(job, error)
    /\ EndTick
    /\ UNCHANGED <<jobs, now, isRunning, job, error, browser, isLoggedIn,
                   stopPc, storeFaults, hist, tick,
                   botVars>>

\* the INSERT of logError or logWarning throws
LogFails ==
    /\ pc \in {"logError", "logWarning"}
    /\ StoreFault
    /\ EndTick
    /\ UNCHANGED <<jobs, logs, now, isRunning, job, error, browser, isLoggedIn,
                   stopPc, hist,
                   botVars>>

(***************************************************************************)
(* JobProcessor.stop, called by the signal handlers of the entry point,    *)
(* which end the process when stop() has returned.                         *)
(***************************************************************************)
\* stop() up to bot.close(): with a browser, browser.close() is awaited;
\* without one close() returns, stop() returns and the process exits
CloseOnStop ==
    IF browser # "none"
    THEN /\ stopPc' = "closing"
         /\ UNCHANGED pc
    ELSE /\ stopPc' = "closed"
         /\ pc' = "exited"

\* the signal arrives: isRunning = false and the first test of isProcessing
StopRequest ==
    /\ stopPc = "none"
    /\ pc \notin {"new", "exited"}
    /\ isRunning' = FALSE
    /\ IF isProcessing
       THEN /\ stopPc' = "waiting"
            /\ UNCHANGED pc
       ELSE CloseOnStop
    /\ UNCHANGED <<jobs, logs, now, isProcessing, job, error, browser,
                   isLoggedIn, storeFaults, hist, tick,
                   botVars>>

\* stop() with a wait loop that gives up after one sleep
StopWakeGivesUp ==
    /\ stopPc = "waiting"
    /\ CloseOnStop
    /\ UNCHANGED <<jobs, logs, now, isRunning, isProcessing, job, error,
                   browser, isLoggedIn, storeFaults, hist, tick,
                   botVars>>

\* sleep(1000) of the wait loop returns with isProcessing false
StopWake ==
    /\ stopPc = "waiting"
    /\ ~isProcessing
    /\ CloseOnStop
    /\ UNCHANGED <<jobs, logs, now, isRunning, isProcessing, job, error,
                   browser, isLoggedIn, storeFaults, hist, tick,
                   botVars>>

\* browser.close() returns: the fields are cleared, stop() returns and the
\* signal handler calls process.exit(0)
StopClosed ==
    /\ stopPc = "closing"
    /\ browser' = "none"
    /\ isLoggedIn' = FALSE
    /\ stopPc' = "closed"
    /\ pc' = "exited"
    /\ UNCHANGED <<jobs, logs, now, isRunning, isProcessing, job, error,
                   storeFaults, hist, tick,
                   botVars>>

Next ==
    \/ InsertJob
    \/ Start
    \/ Poll
    \/ SelectFails
    \/ SelectEmpty
    \/ SelectJob
    \/ MarkProcessing
    \/ MarkProcessingFails
    \/ ProcessJob
    \/ Relaunch
    \/ MarkCompleted
    \/ MarkCompletedFails
    \/ LogSuccess
    \/ LogSuccessFails
    \/ RecordFailure
    \/ RecordFailureFails
    \/ LogError
    \/ LogWarning
    \/ LogFails
    \/ StopRequest
    \/ StopWake
    \/ StopClosed

Spec == Init /\ [][Next]_vars

(***************************************************************************)
(* The processor under fair scheduling: every call the poll loop or stop() *)
(* awaits returns, except possibly the execution of a job (processJob may  *)
(* hang on the remote page); the producer and the signal are free.         *)
(***************************************************************************)
\* the producer, as far as the fair model follows it
InsertLiveJob ==
    /\ Len(jobs) < MaxLiveJobs
    /\ InsertJob

\* the steps of the poll loop other than the execution of a job
LoopSteps ==
    \/ Start
    \/ Poll
    \/ SelectFails
    \/ SelectEmpty
    \/ SelectJob
    \/ MarkProcessing
    \/ MarkProcessingFails
    \/ Relaunch
    \/ MarkCompleted
    \/ MarkCompletedFails
    \/ LogSuccess
    \/ LogSuccessFails
    \/ RecordFailure
    \/ RecordFailureFails
    \/ LogError
    \/ LogWarning
    \/ LogFails

\* the steps of stop() after the signal
StopSteps ==
    \/ StopWake
    \/ StopClosed

LiveNext ==
    \/ InsertLiveJob
    \/ LoopSteps
    \/ ProcessJob
    \/ StopRequest
    \/ StopSteps

\* every awaited call but processJob returns
LiveSpec ==
    /\ Init
    /\ [][LiveNext]_vars
    /\ WF_vars(LoopSteps)
    /\ WF_vars(StopSteps)

\* and processJob returns too
ReturningSpec ==
    /\ LiveSpec
    /\ WF_vars(ProcessJob)

(***************************************************************************)
(* A worker that starts on a queue an earlier worker was killed on: the    *)
(* earlier worker had marked a job 'processing' and never came back to it. *)
(***************************************************************************)
\* before start(): the row the killed worker has left in the table
LeaveBehind ==
    /\ pc = "new"
    /\ jobs = <<>>
    /\ \E req \in Requests, m \in 1..MaxAttempts, a \in 0..(MaxAttempts - 1) :
          /\ a < m
          /\ jobs' = <<[NewJobRow(req, m) EXCEPT !.status = "processing",
                                                !.attempts = a,
                                                !.started_at = now]>>
    /\ hist' = <<[claims |-> 0, execOks |-> 0, noSecret |-> 0, saves |-> 0]>>
    /\ UNCHANGED <<logs, now, isRunning, isProcessing, pc, job, error, browser,
                   isLoggedIn, stopPc, storeFaults, tick,
                   botVars>>

LeftoverNext == LeaveBehind \/ Next

LeftoverSpec == Init /\ [][LeftoverNext]_vars

(***************************************************************************)
(* Two workers on one queue: a second JobProcessor, started, with a bot of *)
(* its own, runs the same poll loop on the same tables. Its store calls    *)
(* return; nothing else of the second instance is followed.                *)
(***************************************************************************)
\* what no step of the second instance touches
PeerFrame ==
    UNCHANGED <<isRunning, isProcessing, pc, job, error, browser, isLoggedIn,
                stopPc, storeFaults, hist, tick, url, totpSecret, bpc, ret,
                totpInput, lg, exec, callVars, maxConcurrent, hooks>>

\* sleep(pollInterval) returns: processNextJob is called, the SELECT issued
PeerPoll ==
    /\ peer.pc = "sleep"
    /\ peer' = [pc |-> "select", job |-> NoJob, error |-> NULL]
    /\ UNCHANGED <<jobs, logs, now>>
    /\ PeerFrame

\* the SELECT returns: no row, or the oldest pending row
PeerSelect ==
    /\ peer.pc = "select"
    /\ IF Pending = {}
       THEN /\ peer' = [peer EXCEPT !.pc = "sleep"]
            /\ UNCHANGED now
       ELSE /\ \E j \in NextPending :
                  peer' = [peer EXCEPT
                              !.pc = "mark",
                              !.job = [id |-> j, attempts |-> jobs[j].attempts,
                                       max_attempts |-> jobs[j].max_attempts]]
            /\ now' = now + 1
    /\ UNCHANGED <<jobs, logs>>
    /\ PeerFrame

\* a claim that gives the job up when the row is no longer 'pending'
PeerMarkIfPending ==
    /\ peer.pc = "mark"
    /\ IF jobs[peer.job.id].status = "pending"
       THEN /\ jobs' = UpdateJobStatus(peer.job.id, "processing", NULL)
            /\ peer' = [peer EXCEPT !.pc = "exec"]
       ELSE /\ peer' = [peer EXCEPT !.pc = "sleep"]
            /\ UNCHANGED jobs
    /\ UNCHANGED <<logs, now>>
    /\ PeerFrame

\* updateJobStatus(job.id, 'processing')
PeerMark ==
    /\ peer.pc = "mark"
    /\ jobs' = UpdateJobStatus(peer.job.id, "processing", NULL)
    /\ peer' = [peer EXCEPT !.pc = "exec"]
    /\ UNCHANGED <<logs, now>>
    /\ PeerFrame

\* processJob returns or throws; after a crash the relaunch of the second
\* instance's browser either returns or throws out of the catch block
PeerProcessJob ==
    /\ peer.pc = "exec"
    /\ \E remote \in {NoError} \cup RemoteErrors, relaunched \in BOOLEAN :
          IF remote = NoError
          THEN peer' = [peer EXCEPT !.pc = "complete"]
          ELSE peer' = [peer EXCEPT
                           !.error = {remote},
                           !.pc = IF IsCrash(remote) /\ ~relaunched
                                  THEN "sleep" ELSE "record"]
    /\ UNCHANGED <<jobs, logs, now>>
    /\ PeerFrame

PeerMarkCompleted ==
    /\ peer.pc = "complete"
    /\ jobs' = UpdateJobStatus(peer.job.id, "completed", NULL)
    /\ peer' = [peer EXCEPT !.pc = "logSuccess"]
    /\ UNCHANGED <<logs, now>>
    /\ PeerFrame

PeerRecordFailure ==
    /\ peer.pc = "record"
    /\ IF Branch(peer.job) = "failed"
       THEN /\ jobs' = UpdateJobStatus(peer.job.id, "failed", peer.error)
            /\ peer' = [peer EXCEPT !.pc = "logError"]
       ELSE /\ jobs' = RetryUpdate(peer.job.id, NewAttempts(peer.job), peer.error)
            /\ peer' = [peer EXCEPT !.pc = "logWarning"]
    /\ UNCHANGED <<logs, now>>
    /\ PeerFrame

\* logSuccess, logError or logWarning: processNextJob returns
PeerLog ==
    /\ peer.pc \in {"logSuccess", "logError", "logWarning"}
    /\ logs' = CASE peer.pc = "logSuccess" -> logSuccess(peer.job)
                 [] peer.pc = "logError" -> logError(peer.job, peer.error)
                 [] OTHER -> logWarning(peer.job, peer.error)
    /\ peer' = [peer EXCEPT !.pc = "sleep"]
    /\ UNCHANGED <<jobs, now>>
    /\ PeerFrame

PeerSteps ==
    \/ PeerPoll
    \/ PeerSelect
    \/ PeerMark
    \/ PeerProcessJob
    \/ PeerMarkCompleted
    \/ PeerRecordFailure
    \/ PeerLog

PairNext ==
    \/ InsertLiveJob
    \/ LoopSteps
    \/ ProcessJob
    \/ PeerSteps

PairSpec == Init /\ [][PairNext]_vars

(***************************************************************************)
(* The set-origination-fee webhook beside the worker: every job is created *)
(* by a request. A request is a SELECT of the matter's latest job, then,   *)
(* unless that job is 'completed' or 'pending', the INSERT of a job and    *)
(* the INSERT of a log row; requests overlap between their awaits. The     *)
(* store may fail the INSERTs of a request; the worker's calls return.     *)
(***************************************************************************)
\* max_attempts INTEGER DEFAULT 3
DefaultMaxAttempts == 3

\* WHERE matter_id = ... ORDER BY created_at DESC LIMIT 1: the rows the
\* SELECT may return (rows of equal created_at have no defined order)
LatestOfMatter(matterId) ==
    {j \in JobIds :
        /\ jobs[j].matter_id = matterId
        /\ \A k \in JobIds : jobs[k].matter_id = matterId
                                 => jobs[k].created_at <= jobs[j].created_at}

\* the two tests on the row the SELECT returned: skip or return existing
HookReturnsExisting(rows) ==
    \E j \in rows : jobs[j].status \in {"completed", "pending"}

\* the row 'job_queued' of the webhook
QueuedRow(jobId) ==
    [LogRow(jobId, "job_queued", "success",
            <<"Automation job created and queued for processing">>)
        EXCEPT !.triggered_by = "zapier"]

\* what no step of a request touches
HookFrame ==
    UNCHANGED <<now, isRunning, isProcessing, pc, job, error, browser,
                isLoggedIn, stopPc, tick, url, totpSecret, bpc, ret,
                totpInput, lg, exec, callVars, maxConcurrent, peer>>

\* a valid POST arrives and its SELECT returns: the handler returns the
\* existing job, or goes on to the INSERT. Requests are followed while
\* the table has room for the job they would create.
HookSelect ==
    /\ Len(hooks.inserting) < MaxHooks
    /\ Len(jobs) + Len(hooks.inserting) < MaxJobs
    /\ \E req \in Requests :
          \E rows \in {{}} \cup {{j} : j \in LatestOfMatter(req.matter_id)} :
             /\ (rows = {}) = (LatestOfMatter(req.matter_id) = {})
             /\ IF HookReturnsExisting(rows)
                THEN UNCHANGED hooks
                ELSE hooks' = [hooks EXCEPT !.inserting = Append(@, req)]
    /\ UNCHANGED <<jobs, logs, hist, storeFaults>>
    /\ HookFrame

\* the INSERT of the job returns its id, then the INSERT of the log row:
\* the handler returns 200, or 500 when the second INSERT throws
HookInsert ==
    /\ hooks.inserting # <<>>
    /\ Len(jobs) < MaxJobs
    /\ jobs' = Append(jobs, NewJobRow(Head(hooks.inserting), DefaultMaxAttempts))
    /\ hist' = Append(hist, [claims |-> 0, execOks |-> 0, noSecret |-> 0, saves |-> 0])
    /\ hooks' = [inserting |-> Tail(hooks.inserting),
                 created |-> hooks.created \cup {Len(jobs) + 1}]
    /\ \E logged \in BOOLEAN :
          IF logged
          THEN /\ logs' = Append(logs, QueuedRow(Len(jobs) + 1))
               /\ UNCHANGED storeFaults
          ELSE /\ storeFaults < MaxStoreFaults
               /\ storeFaults' = storeFaults + 1
               /\ UNCHANGED logs
    /\ HookFrame

\* the INSERT of the job throws: the catch of the handler returns 500
HookFails ==
    /\ hooks.inserting # <<>>
    /\ storeFaults < MaxStoreFaults
    /\ storeFaults' = storeFaults + 1
    /\ hooks' = [hooks EXCEPT !.inserting = Tail(@)]
    /\ UNCHANGED <<jobs, logs, hist>>
    /\ HookFrame

HookSteps ==
    \/ HookSelect
    \/ HookInsert
    \/ HookFails

\* the poll loop when its own store calls return
WorkerSteps ==
    \/ Start
    \/ Poll
    \/ SelectEmpty
    \/ SelectJob
    \/ MarkProcessing
    \/ ProcessJob
    \/ Relaunch
    \/ MarkCompleted
    \/ LogSuccess
    \/ RecordFailure
    \/ LogError
    \/ LogWarning

HookNext ==
    \/ HookSteps
    \/ WorkerSteps

HookSpec == Init /\ [][HookNext]_vars

(***************************************************************************)
(* The worker under every configured MAX_CONCURRENT_JOBS.                  *)
(***************************************************************************)
\* config.maxConcurrent || 1, from parseInt(MAX_CONCURRENT_JOBS || '1')
ConfigInit ==
    /\ Constructed
    /\ feeJob = NoFeeJob
    /\ referrerName = <<>>
    /\ percentage = 0
    /\ form = NoForm
    /\ fpc = "idle"
    /\ call = NoCall
    /\ closeLog = NoClose
    /\ dialogs = NoDialogs
    /\ maxConcurrent \in 1..MaxConcurrent
    /\ peer = NoPeer
    /\ hooks = NoHooks

ConfigSpec == ConfigInit /\ [][Next]_vars

(***************************************************************************)
(* The bot step by step: init(), login(), ensureLoggedIn(),                *)
(* navigateToMatter() and setOriginationFee() as processJob, start() and   *)
(* the crash handling call them. bpc names the step the bot is at; the     *)
(* remote site chooses the URL every navigation ends at and which steps    *)
(* fail.                                                                   *)
(***************************************************************************)
\* what no step of the bot touches
BotFrame ==
    UNCHANGED <<jobs, logs, now, stopPc, storeFaults, job, totpSecret, callVars,
                fleetVars>>

\* the running method goes on with its next step
GoOn(next) ==
    /\ bpc' = next
    /\ UNCHANGED <<pc, ret, error, tick, isProcessing, isRunning>>

\* login() is called
CallLogin(caller) ==
    /\ bpc' = "login"
    /\ ret' = caller
    /\ UNCHANGED <<pc, error, tick, isProcessing, isRunning>>

NewLogin(l) == [NoLogin EXCEPT !.state = "running", !.before = l]

\* processJob throws: the catch block of processNextJob is entered
ProcessJobThrows(msg) ==
    /\ bpc' = "idle"
    /\ ret' = "none"
    /\ pc' = CatchPc(msg)
    /\ error' = {msg}
    /\ tick' = [tick EXCEPT !.exec = "fail"]
    /\ UNCHANGED <<isProcessing, isRunning>>

\* processJob returns
ProcessJobReturns ==
    /\ bpc' = "idle"
    /\ pc' = "complete"
    /\ tick' = [tick EXCEPT !.exec = "ok"]
    /\ UNCHANGED <<ret, error, isProcessing, isRunning>>

\* the catch block of navigateToMatter: a screenshot, then the error wrapped;
\* an error of the screenshot replaces it
NavigateThrows(msg) ==
    \E shot \in ShotResults :
        ProcessJobThrows(IF shot = NoError THEN CouldNotLoad(msg) ELSE shot)

\* login() throws: to start(), which ends the process; to the crash
\* handling, which is left; to ensureLoggedIn and so processJob; or to the
\* try block of navigateToMatter
LoginThrows(msg) ==
    CASE ret = "start" ->
            /\ bpc' = "idle"
            /\ ret' = "none"
            /\ pc' = "exited"
            /\ UNCHANGED <<error, tick, isProcessing, isRunning>>
      [] ret = "relaunch" ->
            /\ bpc' = "idle"
            /\ ret' = "none"
            /\ EndTick
            /\ tick' = [tick EXCEPT !.relaunch = "failed"]
            /\ UNCHANGED <<error, isRunning>>
      [] ret = "ensure" -> ProcessJobThrows(msg)
      [] ret = "navigate" -> NavigateThrows(msg)

\* login() returns to its caller
LoginReturns ==
    CASE ret = "start" ->
            /\ bpc' = "idle"
            /\ ret' = "none"
            /\ isRunning' = TRUE
            /\ pc' = "select"
            /\ tick' = BeginTick
            /\ UNCHANGED <<error, isProcessing>>
      [] ret = "relaunch" ->
            /\ bpc' = "idle"
            /\ ret' = "none"
            /\ pc' = "record"
            /\ tick' = [tick EXCEPT !.relaunch = "ok"]
            /\ UNCHANGED <<error, isProcessing, isRunning>>
      [] ret = "ensure" ->
            /\ bpc' = "navigate"
            /\ ret' = "none"
            /\ UNCHANGED <<pc, error, tick, isProcessing, isRunning>>
      [] ret = "navigate" ->
            /\ bpc' = "navigateRetry"
            /\ ret' = "none"
            /\ UNCHANGED <<pc, error, tick, isProcessing, isRunning>>

\* the catch block of login(): a screenshot whose error is ignored, then
\* the error wrapped; l is the history of the call
LoginFails(msg, l) ==
    /\ lg' = [l EXCEPT !.state = "threw"]
    /\ exec' = IF ret \in {"ensure", "navigate"}
               THEN [exec EXCEPT !.loginFailed = TRUE]
               ELSE exec
    /\ hist' = IF l.noSecret /\ ret \in {"ensure", "navigate"}
               THEN [hist EXCEPT ![job.id].noSecret = @ + 1]
               ELSE hist
    /\ LoginThrows(LoginFailed(msg))
    /\ UNCHANGED <<browser, isLoggedIn, totpInput>>

\* start(): bot.init() launches the browser and calls login()
Launch ==
    /\ pc = "new"
    /\ bpc = "idle"
    /\ \E ok \in BOOLEAN :
          IF ok
          THEN /\ browser' = "open"
               /\ url' = BlankUrl
               /\ lg' = NewLogin(isLoggedIn)
               /\ CallLogin("start")
          ELSE /\ pc' = "exited"
               /\ UNCHANGED <<browser, url, lg, bpc, ret, error, tick,
                              isProcessing, isRunning>>
    /\ UNCHANGED <<isLoggedIn, totpInput, exec, hist>>
    /\ BotFrame

\* the crash handling: bot.close() with its errors ignored, then bot.init()
Restart ==
    /\ pc = "relaunch"
    /\ bpc = "idle"
    /\ \E closeThrows \in BOOLEAN, ok \in BOOLEAN :
          LET closed == BotClose(browser, isLoggedIn, closeThrows) IN
          /\ isLoggedIn' = closed.isLoggedIn
          /\ IF ok
             THEN /\ browser' = "open"
                  /\ url' = BlankUrl
                  /\ lg' = NewLogin(closed.isLoggedIn)
                  /\ CallLogin("relaunch")
             ELSE /\ browser' = closed.browser
                  /\ bpc' = "idle"
                  /\ EndTick
                  /\ tick' = [tick EXCEPT !.relaunch = "failed"]
                  /\ UNCHANGED <<url, lg, ret, error, isRunning>>
    /\ UNCHANGED <<totpInput, exec, hist>>
    /\ BotFrame

\* login(): page.goto(baseUrl); without a page the call throws
LoginGoto ==
    /\ bpc = "login"
    /\ IF browser = "none"
       THEN /\ LoginFails(NullPageError, lg)
            /\ UNCHANGED url
       ELSE \E out \in {NoError} \cup PageErrors, u \in Urls :
               IF out = NoError
               THEN /\ url' = u
                    /\ GoOn("loginForm")
                    /\ UNCHANGED <<browser, isLoggedIn, totpInput, lg, exec,
                                   hist>>
               ELSE /\ LoginFails(out, lg)
                    /\ UNCHANGED url
    /\ BotFrame

\* login(): the form is looked up, filled and submitted, and the navigation
\* it starts is awaited
LoginForm ==
    /\ bpc = "loginForm"
    /\ \E out \in {NoError, NoInputsError} \cup PageErrors, u \in Urls :
          IF out = NoError
          THEN /\ url' = u
               /\ GoOn("loginMfa")
               /\ UNCHANGED <<browser, isLoggedIn, totpInput, lg, exec, hist>>
          ELSE /\ LoginFails(out, lg)
               /\ UNCHANGED url
    /\ BotFrame

\* login(): on an MFA page (by URL) the code input is awaited; a
\* screenshot; the 2FA input is looked up by the selectors and, on an MFA
\* page, after another screenshot among all the text inputs
LoginMfa ==
    /\ bpc = "loginMfa"
    /\ \E out \in {NoError, ScreenshotError}
                     \cup (IF IsMfaPage(url) THEN PageErrors ELSE {}),
          found \in BOOLEAN, fallback \in BOOLEAN :
          IF out = NoError
          THEN /\ totpInput' = (found \/ (IsMfaPage(url) /\ fallback))
               /\ GoOn("loginTotp")
               /\ UNCHANGED <<browser, isLoggedIn, lg, exec, hist>>
          ELSE LoginFails(out, lg)
    /\ UNCHANGED url
    /\ BotFrame

\* login(): with a 2FA input and no secret, a screenshot and the error;
\* with a secret the field is cleared, the code typed, a screenshot taken,
\* the code submitted and the navigation awaited: when it times out on a
\* 'login-mfa' URL the login has failed
LoginTotp ==
    /\ bpc = "loginTotp"
    /\ IF ~totpInput
       THEN /\ GoOn("loginFinal")
            /\ UNCHANGED <<browser, isLoggedIn, totpInput, lg, exec, hist, url>>
       ELSE IF ~totpSecret
       THEN /\ \E shot \in ShotResults :
                  IF shot = NoError
                  THEN LoginFails(TwoFactorError, [lg EXCEPT !.noSecret = TRUE])
                  ELSE LoginFails(shot, lg)
            /\ UNCHANGED url
       ELSE LET typed == [lg EXCEPT !.typed = TRUE]
                submitted == [typed EXCEPT !.submitted = TRUE] IN
            \/ \E out \in PageErrors :
                  /\ LoginFails(out, lg)
                  /\ UNCHANGED url
            \/ /\ LoginFails(ScreenshotError, typed)
               /\ UNCHANGED url
            \/ \E u \in Urls, timeout \in BOOLEAN, shot \in ShotResults :
                  /\ url' = u
                  /\ IF timeout /\ UrlIncludes(u, <<"login", "-", "mfa">>)
                     THEN LoginFails(StillOnMfaError, submitted)
                     ELSE IF shot # NoError
                     THEN LoginFails(shot, submitted)
                     ELSE /\ lg' = submitted
                          /\ GoOn("loginFinal")
                          /\ UNCHANGED <<browser, isLoggedIn, totpInput, exec,
                                         hist>>
    /\ BotFrame

\* login(): the final URL is read, a screenshot taken and the URL tested
LoginFinal ==
    /\ bpc = "loginFinal"
    /\ \E shot \in ShotResults :
          IF shot # NoError
          THEN LoginFails(shot, lg)
          ELSE IF StillOnAuthPage(url)
          THEN LoginFails(StillOnAuthError, lg)
          ELSE /\ isLoggedIn' = TRUE
               /\ lg' = [lg EXCEPT !.state = "returned"]
               /\ exec' = IF ret = "ensure"
                          THEN [exec EXCEPT !.ensured = TRUE]
                          ELSE exec
               /\ LoginReturns
               /\ UNCHANGED <<browser, totpInput, hist>>
    /\ UNCHANGED url
    /\ BotFrame

\* processJob without its first statement
ProcessJobSkipsEnsure ==
    /\ pc = "exec"
    /\ bpc = "idle"
    /\ exec' = NoExec
    /\ GoOn("navigate")
    /\ UNCHANGED <<browser, url, totpInput, lg, hist, isLoggedIn>>
    /\ BotFrame

\* an ensureLoggedIn that reports the expired session as an error
EnsureLoggedInThrows ==
    /\ pc = "exec"
    /\ bpc = "idle"
    /\ IF isOnLoginPage(browser, url)
       THEN /\ exec' = [NoExec EXCEPT !.expired = TRUE]
            /\ ProcessJobThrows(<<"Session expired">>)
       ELSE /\ exec' = [NoExec EXCEPT !.ensured = TRUE]
            /\ GoOn("navigate")
    /\ UNCHANGED <<browser, url, totpInput, hist, isLoggedIn, lg>>
    /\ BotFrame

\* processJob begins: ensureLoggedIn()
EnsureLoggedIn ==
    /\ pc = "exec"
    /\ bpc = "idle"
    /\ IF isOnLoginPage(browser, url)
       THEN /\ isLoggedIn' = FALSE
            /\ exec' = [NoExec EXCEPT !.expired = TRUE]
            /\ lg' = NewLogin(FALSE)
            /\ CallLogin("ensure")
       ELSE /\ exec' = [NoExec EXCEPT !.ensured = TRUE]
            /\ GoOn("navigate")
            /\ UNCHANGED <<isLoggedIn, lg>>
    /\ UNCHANGED <<browser, url, totpInput, hist>>
    /\ BotFrame

\* navigateToMatter up to the test for a login page: on a login page a
\* screenshot and login(), else a screenshot and the method returns
NavigateToMatter ==
    /\ bpc = "navigate"
    /\ IF ~isLoggedIn
       THEN /\ ProcessJobThrows(NotLoggedInError)
            /\ UNCHANGED <<url, lg, exec>>
       ELSE \E out \in {NoError} \cup PageErrors, u \in Urls,
               shot \in ShotResults :
               IF out # NoError
               THEN /\ NavigateThrows(out)
                    /\ exec' = [exec EXCEPT !.fault = TRUE]
                    /\ UNCHANGED <<url, lg>>
               ELSE /\ url' = u
                    /\ IF shot # NoError
                       THEN /\ NavigateThrows(shot)
                            /\ exec' = [exec EXCEPT !.fault = TRUE]
                            /\ UNCHANGED lg
                       ELSE IF isOnLoginPage(browser, u)
                       THEN /\ exec' = [exec EXCEPT !.expired = TRUE]
                            /\ lg' = NewLogin(isLoggedIn)
                            /\ CallLogin("navigate")
                       ELSE /\ GoOn("fee")
                            /\ UNCHANGED <<lg, exec>>
    /\ UNCHANGED <<browser, isLoggedIn, totpInput, hist>>
    /\ BotFrame

\* navigateToMatter after the re-login: the navigation again, a screenshot
NavigateRetry ==
    /\ bpc = "navigateRetry"
    /\ \E out \in {NoError} \cup PageErrors \cup {ScreenshotError}, u \in Urls :
          IF out # NoError
          THEN /\ NavigateThrows(out)
               /\ exec' = [exec EXCEPT !.fault = TRUE]
               /\ url' \in {url, u}
          ELSE /\ url' = u
               /\ GoOn("fee")
               /\ UNCHANGED exec
    /\ UNCHANGED <<browser, isLoggedIn, totpInput, lg, hist>>
    /\ BotFrame

\* processJob: the screenshot before, then setOriginationFee up to the
\* click on Save; an error of a step is rethrown after a screenshot, whose
\* error replaces it. Only the billing page has the form.
SetOriginationFee ==
    /\ bpc = "fee"
    /\ \E out \in {NoError, ScreenshotError} \cup FeeErrors,
          shot \in ShotResults :
          /\ out = NoError => url = BillingUrl
          /\ IF out # NoError
             THEN /\ ProcessJobThrows(IF shot = NoError THEN out ELSE shot)
                  /\ exec' = [exec EXCEPT !.fault = TRUE]
                  /\ UNCHANGED hist
             ELSE /\ GoOn("saved")
                  /\ exec' = [exec EXCEPT !.saved = TRUE]
                  /\ hist' = [hist EXCEPT ![job.id].saves = @ + 1]
    /\ UNCHANGED <<browser, isLoggedIn, url, totpInput, lg>>
    /\ BotFrame

\* setOriginationFee after the click on Save: its last screenshot; then
\* processJob: the screenshot after, and the call returns
AfterSave ==
    /\ bpc = "saved"
    /\ \E shot \in ShotResults :
          IF shot # NoError
          THEN /\ ProcessJobThrows(shot)
               /\ exec' = [exec EXCEPT !.fault = TRUE]
               /\ UNCHANGED hist
          ELSE /\ ProcessJobReturns
               /\ hist' = [hist EXCEPT ![job.id].execOks = @ + 1]
               /\ UNCHANGED exec
    /\ UNCHANGED <<browser, isLoggedIn, url, totpInput, lg>>
    /\ BotFrame

\* the producer, as far as the step-by-step model follows it
InsertBotJob ==
    /\ Len(jobs) < MaxBotJobs
    /\ \E req \in Requests, m \in 1..MaxBotAttempts :
          jobs' = Append(jobs, NewJobRow(req, m))
    /\ hist' = Append(hist, [claims |-> 0, execOks |-> 0, noSecret |-> 0, saves |-> 0])
    /\ UNCHANGED <<logs, now, isRunning, isProcessing, pc, job, error, browser,
                   isLoggedIn, stopPc, storeFaults, tick,
                   botVars>>

\* the worker with the bot step by step, its store operations succeeding
\* and no signal arriving
BotNext ==
    \/ InsertBotJob
    \/ Launch
    \/ Poll
    \/ SelectEmpty
    \/ SelectJob
    \/ MarkProcessing
    \/ EnsureLoggedIn
    \/ LoginGoto
    \/ LoginForm
    \/ LoginMfa
    \/ LoginTotp
    \/ LoginFinal
    \/ NavigateToMatter
    \/ NavigateRetry
    \/ SetOriginationFee
    \/ AfterSave
    \/ Restart
    \/ MarkCompleted
    \/ LogSuccess
    \/ RecordFailure
    \/ LogError
    \/ LogWarning

BotSpec == Init /\ [][BotNext]_vars

(***************************************************************************)
(* Single calls of the bot's methods, as processJob and the scripts make   *)
(* them: init(), close(), and setOriginationFee field by field. The page   *)
(* chooses which steps fail; fpc names the step setOriginationFee is at.   *)
(***************************************************************************)
\* what no call of a method of the bot touches
CallFrame ==
    UNCHANGED <<jobs, logs, now, isRunning, isProcessing, pc, job, error,
                stopPc, storeFaults, hist, tick, url, totpSecret, bpc, ret,
                totpInput, lg, exec, feeJob, fleetVars>>

\* the arguments and the form are drawn when the page is first loaded
CallInit ==
    /\ Constructed
    /\ feeJob \in [referrer_name : Names, origination_percentage : PercentTexts]
    /\ referrerName = <<>>
    /\ percentage = 0
    /\ form \in Forms
    /\ fpc = "idle"
    /\ call = NoCall
    /\ closeLog = NoClose
    /\ dialogs = NoDialogs
    /\ maxConcurrent = 1
    /\ peer = NoPeer
    /\ hooks = NoHooks

\* init(), called by a script
OpenBot ==
    /\ fpc = "idle"
    /\ browser = "none"
    /\ \E res \in InitResults :
          LET bot == BotInit(browser, isLoggedIn, res) IN
          /\ browser' = bot.browser
          /\ isLoggedIn' = bot.isLoggedIn
    /\ dialogs' = IF browser' # browser THEN NoDialogs ELSE dialogs
    /\ UNCHANGED <<referrerName, percentage, form, fpc, call, closeLog>>
    /\ CallFrame

\* close(), called by a script or by stop()
CloseBot ==
    /\ fpc = "idle"
    /\ Len(closeLog.found) < MaxCloses
    /\ \E closeThrows \in BOOLEAN :
          LET bot == BotClose(browser, isLoggedIn, closeThrows) IN
          /\ browser' = bot.browser
          /\ isLoggedIn' = bot.isLoggedIn
          /\ closeLog' = [found |-> Append(closeLog.found, browser),
                          threw |-> browser # "none" /\ closeThrows]
    /\ dialogs' = IF browser' # browser THEN NoDialogs ELSE dialogs
    /\ UNCHANGED <<referrerName, percentage, form, fpc, call>>
    /\ CallFrame

\* processJob: percentage = parseFloat(job.origination_percentage), then
\* the call of setOriginationFee
FeeCall ==
    /\ fpc = "idle"
    /\ dialogs.armed < MaxListeners
    /\ referrerName' = feeJob.referrer_name
    /\ percentage' = ParseFloat(feeJob.origination_percentage)
    /\ call' = [NoCall EXCEPT !.state = "running"]
    /\ fpc' = "checkbox"
    /\ UNCHANGED <<browser, isLoggedIn, form, closeLog, dialogs>>
    /\ CallFrame

\* the catch block of setOriginationFee: a screenshot, whose error replaces
\* the error that is rethrown; without a page the screenshot is a no-op
FeeThrows(c, msg, shot) ==
    /\ fpc' = "idle"
    /\ call' = [c EXCEPT !.state = "threw",
                         !.error = IF browser # "none" /\ shot # NoError
                                   THEN shot ELSE msg]

\* step 1 with a click whatever the checkbox shows
FeeCheckboxAlwaysClicks ==
    /\ fpc = "checkbox"
    /\ \E out \in {NoError, CheckboxError, TargetClosed, ScreenshotError},
          shot \in ShotResults :
          IF browser = "none"
          THEN /\ FeeThrows(call, NullPageError, shot)
               /\ UNCHANGED form
          ELSE IF out \in {CheckboxError, TargetClosed}
          THEN /\ FeeThrows(call, out, shot)
               /\ UNCHANGED form
          ELSE LET c == [call EXCEPT !.events = Append(@, "click checkbox")]
               IN
               /\ form' = [form EXCEPT !.checked = ~@]
               /\ IF out = ScreenshotError
                  THEN FeeThrows(c, out, shot)
                  ELSE /\ call' = c
                       /\ fpc' = "staff"
    /\ UNCHANGED <<browser, isLoggedIn, referrerName, percentage, closeLog,
                   dialogs>>
    /\ CallFrame

\* step 1: the checkbox is looked up and read, clicked when it is not
\* checked (a click toggles it), and a screenshot is taken
FeeCheckbox ==
    /\ fpc = "checkbox"
    /\ \E out \in {NoError, CheckboxError, TargetClosed, ScreenshotError},
          shot \in ShotResults :
          IF browser = "none"
          THEN /\ FeeThrows(call, NullPageError, shot)
               /\ UNCHANGED form
          ELSE IF out \in {CheckboxError, TargetClosed}
          THEN /\ FeeThrows(call, out, shot)
               /\ UNCHANGED form
          ELSE LET isChecked == form.checked
                   c == IF ~isChecked
                        THEN [call EXCEPT !.events = Append(@, "click checkbox")]
                        ELSE call
               IN
               /\ form' = IF ~isChecked
                          THEN [form EXCEPT !.checked = ~@]
                          ELSE form
               /\ IF out = ScreenshotError
                  THEN FeeThrows(c, out, shot)
                  ELSE /\ call' = c
                       /\ fpc' = "staff"
    /\ UNCHANGED <<browser, isLoggedIn, referrerName, percentage, closeLog,
                   dialogs>>
    /\ CallFrame

\* step 2 with a missing staff member only printed, not thrown
FeeStaffGoesOn ==
    /\ fpc = "staff"
    /\ \E out \in {NoError, NavigationTimeout, TargetClosed},
          shot \in ShotResults :
          LET staffOption == FindOption(form.options, referrerName) IN
          IF out # NoError
          THEN /\ FeeThrows(call, out, shot)
               /\ UNCHANGED form
          ELSE IF staffOption = 0
          THEN /\ call' = [call EXCEPT
                              !.reported = AvailableOptions(form.options)]
               /\ fpc' = "clear"
               /\ UNCHANGED form
          ELSE LET chosen == SelectByValue(form.options,
                                           form.options[staffOption].value)
               IN
               /\ form' = [form EXCEPT
                              !.selected = form.options[chosen].value]
               /\ call' = [call EXCEPT !.events = Append(@, "select")]
               /\ fpc' = "clear"
    /\ UNCHANGED <<browser, isLoggedIn, referrerName, percentage, closeLog,
                   dialogs>>
    /\ CallFrame

\* step 2: the dropdown is waited for, the option of the referrer's title
\* is looked up and selected by its value; without such an option the first
\* titles are printed and the call throws
FeeStaff ==
    /\ fpc = "staff"
    /\ \E out \in {NoError, NavigationTimeout, TargetClosed},
          shot \in ShotResults :
          LET staffOption == FindOption(form.options, referrerName) IN
          IF out # NoError
          THEN /\ FeeThrows(call, out, shot)
               /\ UNCHANGED form
          ELSE IF staffOption = 0
          THEN /\ FeeThrows([call EXCEPT
                                !.reported = AvailableOptions(form.options)],
                            StaffNotFoundError, shot)
               /\ UNCHANGED form
          ELSE LET chosen == SelectByValue(form.options,
                                           form.options[staffOption].value)
               IN
               /\ form' = [form EXCEPT
                              !.selected = form.options[chosen].value]
               /\ call' = [call EXCEPT !.events = Append(@, "select")]
               /\ fpc' = "clear"
    /\ UNCHANGED <<browser, isLoggedIn, referrerName, percentage, closeLog,
                   dialogs>>
    /\ CallFrame

\* step 3, first half: the field is looked up and its content removed by a
\* triple click and Backspace
FeeClear ==
    /\ fpc = "clear"
    /\ \E out \in {NoError, PercentInputError, TargetClosed},
          shot \in ShotResults :
          IF out # NoError
          THEN /\ FeeThrows(call, out, shot)
               /\ UNCHANGED form
          ELSE /\ form' = [form EXCEPT !.field = <<>>]
               /\ call' = [call EXCEPT !.events = Append(@, "clear")]
               /\ fpc' = "type"
    /\ UNCHANGED <<browser, isLoggedIn, referrerName, percentage, closeLog,
                   dialogs>>
    /\ CallFrame

\* step 3, second half: parseFloat(percentage).toFixed(2) is typed after
\* what the field holds, and a screenshot is taken
FeeType ==
    /\ fpc = "type"
    /\ \E out \in {NoError, TargetClosed, ScreenshotError},
          shot \in ShotResults :
          LET formattedPercentage ==
                  ToFixed2(ParseFloat(NumberToString(percentage)))
              c == [call EXCEPT !.events = Append(@, "type")]
          IN
          IF out = TargetClosed
          THEN /\ FeeThrows(call, out, shot)
               /\ UNCHANGED form
          ELSE /\ form' = [form EXCEPT
                              !.field = Append(@, formattedPercentage)]
               /\ IF out = ScreenshotError
                  THEN FeeThrows(c, out, shot)
                  ELSE /\ call' = c
                       /\ fpc' = "save"
    /\ UNCHANGED <<browser, isLoggedIn, referrerName, percentage, closeLog,
                   dialogs>>
    /\ CallFrame

\* step 4: the Save button is looked up; page.once('dialog', ...) registers
\* one more listener; the button is clicked (the click may throw)
FeeSave ==
    /\ fpc = "save"
    /\ \E out \in {NoError, SaveButtonError, TargetClosed},
          shot \in ShotResults :
          IF out = SaveButtonError
          THEN /\ FeeThrows(call, out, shot)
               /\ UNCHANGED dialogs
          ELSE /\ dialogs' = [dialogs EXCEPT !.armed = @ + 1]
               /\ IF out = TargetClosed
                  THEN FeeThrows(call, out, shot)
                  ELSE /\ call' = [call EXCEPT !.events = Append(@, "save")]
                       /\ fpc' = "saved"
    /\ UNCHANGED <<browser, isLoggedIn, referrerName, percentage, form,
                   closeLog>>
    /\ CallFrame

\* after the click on Save: during the sleep the page raises its
\* confirmation dialog or none; a dialog is handed to every registered
\* listener, each of which calls accept(), and consumes them all. Then the
\* last screenshot, and the call returns true
FeeDone ==
    /\ fpc = "saved"
    /\ \E dialog \in BOOLEAN :
          dialogs' = IF dialog
                     THEN [armed |-> 0, accepts |-> dialogs.armed]
                     ELSE dialogs
    /\ \E shot \in ShotResults, shot2 \in ShotResults :
          IF shot # NoError
          THEN FeeThrows(call, shot, shot2)
          ELSE /\ call' = [call EXCEPT !.state = "returned"]
               /\ fpc' = "idle"
    /\ UNCHANGED <<browser, isLoggedIn, referrerName, percentage, form,
                   closeLog>>
    /\ CallFrame

CallNext ==
    \/ OpenBot
    \/ CloseBot
    \/ FeeCall
    \/ FeeCheckbox
    \/ FeeStaff
    \/ FeeClear
    \/ FeeType
    \/ FeeSave
    \/ FeeDone

CallSpec == CallInit /\ [][CallNext]_vars

(***************************************************************************)
(* Properties.                                                             *)
(***************************************************************************)
Processing == {j \in JobIds : jobs[j].status = "processing"}

\* a call of processNextJob that had selected a job has returned or thrown
TickOver == pc = "sleep" /\ job # NoJob

\* the rows the tick has appended to the log for its job
TickLogs == {i \in (tick.logMark + 1)..Len(logs) : logs[i].job_id = job.id}

\* C1: a job whose execution fails on every attempt is claimed exactly
\* max_attempts times and then is 'failed', and stored attempts never
\* exceed max_attempts. Stated on the ticks in which no store operation
\* has failed: between ticks, a job that was claimed, never executed
\* successfully and is not waiting for a retry is 'failed' after exactly
\* max_attempts claims.
C1_RetryBound ==
    \A j \in JobIds :
        /\ jobs[j].attempts <= jobs[j].max_attempts
        /\ hist[j].execOks = 0 => hist[j].claims <= jobs[j].max_attempts
        /\ (/\ storeFaults = 0
            /\ pc = "sleep"
            /\ hist[j].execOks = 0
            /\ hist[j].claims >= 1
            /\ jobs[j].status # "pending")
           => /\ jobs[j].status = "failed"
              /\ hist[j].claims = jobs[j].max_attempts

StatusChanges ==
    {<<"pending", "processing">>, <<"processing", "completed">>,
     <<"processing", "pending">>, <<"processing", "failed">>}

\* C2: every status change is one of the four of the lifecycle, a
\* 'completed' or 'failed' job keeps its status, and no row is deleted.
C2_StatusLifecycle ==
    [][\A j \in JobIds :
          /\ j \in 1..Len(jobs')
          /\ jobs'[j].status # jobs[j].status
                => <<jobs[j].status, jobs'[j].status>> \in StatusChanges
          /\ jobs[j].status \in {"completed", "failed"}
                => jobs'[j].status = jobs[j].status]_vars

\* C3: at most one row of the queue is 'processing'. Stated on the runs in
\* which no store operation has failed.
C3_SingleProcessing == storeFaults = 0 => Cardinality(Processing) <= 1

\* the tick has marked its job 'processing' and is still handling it
InFlight == isProcessing /\ jobs[job.id].status = "processing"

\* C4: stop() closes the browser only when no job is in flight, and once it
\* has closed the browser the processor takes no further step.
C4_StopWaitsForJob ==
    [][/\ stopPc' = "closed" => ~InFlight'
       /\ stopPc = "closed"
             => /\ UNCHANGED <<pc, job, logs, browser, isLoggedIn,
                               isProcessing>>
                /\ \A j \in JobIds : jobs'[j] = jobs[j]]_vars

\* C5: after a tick whose execution failed with a crash indicator (and
\* whose store operations all succeeded) the bot was closed and initialised
\* again, and the job has left 'processing' with the attempt accounted for:
\* it is 'pending' with attempts incremented, or 'failed'.
C5_CrashStillCounted ==
    (/\ TickOver
     /\ tick.exec = "fail"
     /\ \E msg \in error : IsCrash(msg)
     /\ ~tick.storeFault)
    => /\ tick.relaunch # "none"
       /\ \/ /\ jobs[job.id].status = "pending"
             /\ jobs[job.id].attempts = job.attempts + 1
          \/ jobs[job.id].status = "failed"

\* row j was created before row k: earlier created_at, the id breaking ties
CreatedBefore(j, k) ==
    \/ jobs[j].created_at < jobs[k].created_at
    \/ jobs[j].created_at = jobs[k].created_at /\ j < k

\* C6: the job a claim marks 'processing' was created before every other
\* pending job, ties of created_at broken by creation order.
C6_OldestFirst ==
    [][(pc = "mark" /\ pc' = "exec")
          => \A k \in Pending \ {job.id} : CreatedBefore(job.id, k)]_vars

\* C7: every 'failed' job has stored attempts >= max_attempts.
C7_FailedHasAllAttempts ==
    \A j \in JobIds :
        jobs[j].status = "failed" => jobs[j].attempts >= jobs[j].max_attempts

\* the tick's execution failed and the catch block reached its branch, and
\* no store operation of the tick failed
FailureRecorded ==
    /\ TickOver
    /\ tick.exec = "fail"
    /\ tick.relaunch # "failed"
    /\ ~tick.storeFault

\* C8: after a tick whose attempt failed with attempts + 1 < max_attempts
\* the job is 'pending', its attempts are one more than before, its
\* error_message is the failure's message, and the tick has appended one
\* log row for it, a 'warning' of action 'retry'.
C8_RetryRecorded ==
    (FailureRecorded /\ job.attempts + 1 < job.max_attempts)
    => /\ jobs[job.id].status = "pending"
       /\ jobs[job.id].attempts = job.attempts + 1
       /\ jobs[job.id].error_message = error
       /\ error # NULL
       /\ Cardinality(TickLogs) = 1
       /\ \A i \in TickLogs :
             logs[i] = LogRow(job.id, "retry", "warning", error)

\* a job was reverted to 'pending' after a failed attempt
C8_Witness ==
    /\ FailureRecorded
    /\ job.attempts + 1 < job.max_attempts
    /\ jobs[job.id].status = "pending"
    /\ jobs[job.id].error_message = {TargetClosedError}

\* C9: after a tick whose attempt failed with attempts + 1 >= max_attempts
\* the job is 'failed', its error_message is the failure's message, its
\* completed_at is the time of the failure, and the tick has appended one
\* log row for it, an 'error'.
C9_FailureRecorded ==
    (FailureRecorded /\ job.attempts + 1 >= job.max_attempts)
    => /\ jobs[job.id].status = "failed"
       /\ jobs[job.id].error_message = error
       /\ error # NULL
       /\ jobs[job.id].completed_at = {now}
       /\ Cardinality(TickLogs) = 1
       /\ \A i \in TickLogs :
             logs[i] = LogRow(job.id, "failed", "error", error)

\* a job failed permanently on its second attempt
C9_Witness ==
    /\ FailureRecorded
    /\ job.attempts = 1
    /\ job.max_attempts = 2
    /\ jobs[job.id].status = "failed"

\* C10: after a tick whose execution succeeded (and whose store operations
\* all succeeded) the job is 'completed' with completed_at set and
\* error_message null, and the tick has appended one log row for it, a
\* 'success'.
C10_SuccessRecorded ==
    (TickOver /\ tick.exec = "ok" /\ ~tick.storeFault)
    => /\ jobs[job.id].status = "completed"
       /\ jobs[job.id].completed_at = {now}
       /\ jobs[job.id].error_message = NULL
       /\ Cardinality(TickLogs) = 1
       /\ \A i \in TickLogs :
             logs[i] = LogRow(job.id, "origination_fee_set", "success", NULL)

\* a job completed on its second attempt, after a failure had stored a message
C10_Witness ==
    /\ TickOver
    /\ tick.exec = "ok"
    /\ ~tick.storeFault
    /\ job.attempts = 1
    /\ jobs[job.id].status = "completed"

\* the positions of the poll loop inside a call of processNextJob
TickPcs ==
    {"select", "mark", "exec", "relaunch", "complete", "logSuccess", "record",
     "logError", "logWarning"}

\* the tick that has just ended was left by an exception
TickFailed == tick.storeFault \/ tick.relaunch = "failed"

\* C11: no exception of a tick stops the poll loop. A call of processNextJob
\* is left only towards the sleep of the loop (or by the process exit of the
\* signal handler), and when the sleep after a failed tick is over and
\* isRunning is still true, the loop issues the next SELECT.
C11_LoopSurvivesErrors ==
    [][/\ (pc \in TickPcs /\ pc' \notin TickPcs)
             => (pc' = "sleep" \/ stopPc' = "closed")
       /\ (pc = "sleep" /\ TickFailed /\ pc' # "sleep" /\ isRunning')
             => pc' = "select"]_vars

\* the loop polls again after a tick in which a store operation had failed
C11_Witness == pc = "select" /\ isRunning /\ storeFaults >= 1 /\ job = NoJob

\* C12: isProcessing is false whenever processNextJob is not running:
\* before the loop starts, during the sleep between two ticks, and after
\* the loop has ended.
C12_FlagReset == pc \in {"new", "sleep", "ended"} => ~isProcessing

\* a tick that had set the flag was left by the exception of a failed relaunch
C12_Witness ==
    pc = "sleep" /\ job # NoJob /\ tick.relaunch = "failed" /\ ~isProcessing

\* C13: after a tick in which a store operation failed (and which was not
\* left by a failed relaunch) the job of the tick is not 'processing'.
C13_StoreFailureRetried ==
    (TickOver /\ tick.storeFault /\ tick.relaunch # "failed")
    => jobs[job.id].status # "processing"

(***************************************************************************)
(* Properties of the bot, in BotSpec.                                      *)
(***************************************************************************)
\* every execution of job j so far ended with login() stopping at a 2FA
\* input without a secret
AlwaysNoSecret(j) ==
    hist[j].claims >= 1 /\ hist[j].noSecret = hist[j].claims

\* C14: a job whose execution failed because login() met a 2FA input while
\* no TOTP secret is configured is not retried: after that tick it is
\* 'failed', it has been claimed once and no attempt has been counted.
C14_NoSecretNotRetried ==
    \A j \in JobIds :
        (pc = "sleep" /\ hist[j].noSecret >= 1)
        => /\ jobs[j].status = "failed"
           /\ hist[j].claims = 1
           /\ jobs[j].attempts = 0

\* C15: when login() has found a 2FA input and no secret is configured, its
\* next step throws, no code has been typed or submitted and isLoggedIn is
\* left as it was; and between ticks a job whose every execution ended this
\* way is never 'completed': it is 'pending' while it has been claimed fewer
\* than max_attempts times and 'failed' once it has been claimed
\* max_attempts times.
C15_NoSecretFailsLogin ==
    /\ [][(bpc = "loginTotp" /\ totpInput /\ ~totpSecret /\ bpc' # bpc)
             => /\ lg'.state = "threw"
                /\ ~lg'.typed
                /\ ~lg'.submitted
                /\ isLoggedIn' = isLoggedIn]_vars
    /\ [](\A j \in JobIds :
             (pc = "sleep" /\ AlwaysNoSecret(j))
             => /\ hist[j].claims <= jobs[j].max_attempts
                /\ hist[j].claims < jobs[j].max_attempts
                      => jobs[j].status = "pending"
                /\ hist[j].claims = jobs[j].max_attempts
                      => jobs[j].status = "failed")

\* a job failed for good after two attempts that both stopped at 2FA
C15_Witness ==
    /\ pc = "sleep"
    /\ \E j \in JobIds :
          /\ hist[j].noSecret = 2
          /\ hist[j].claims = 2
          /\ jobs[j].status = "failed"
    /\ lg.noSecret
    /\ ~totpSecret

\* C16: after a tick whose execution detected a session expiry (before the
\* job or right after the navigation), whose re-login succeeded and in
\* which no other step failed, the job is 'completed', its attempts are
\* what they were, and the only log row of the tick is the success row.
C16_ExpiryRecovered ==
    (TickOver /\ exec.expired /\ ~exec.loginFailed /\ ~exec.fault)
    => /\ tick.exec = "ok"
       /\ jobs[job.id].status = "completed"
       /\ jobs[job.id].attempts = job.attempts
       /\ \A i \in TickLogs : logs[i].status = "success"

\* a job completed in a tick that had found the session expired
C16_Witness ==
    /\ TickOver
    /\ exec.expired
    /\ ~exec.loginFailed
    /\ tick.exec = "ok"
    /\ jobs[job.id].status = "completed"

\* C17: while an execution navigates to the matter, fills the form or has
\* clicked Save, its ensureLoggedIn has returned normally.
C17_EnsureFirst ==
    /\ (bpc \in {"navigate", "navigateRetry", "fee", "saved"} \/ ret = "navigate")
          => exec.ensured
    /\ exec.saved => exec.ensured

\* the form is reached in an execution that found the session expired and
\* logged in again
C17_Witness == bpc = "fee" /\ exec.ensured /\ exec.expired /\ lg.state = "returned"

\* the URL contains one of the patterns of an authentication page
OnAuthPattern(u) ==
    \E p \in {<<"/", "auth", "/", "login">>, <<"login", "-", "mfa">>,
              <<"/", "signin">>, <<"/", "authenticate">>} :
        UrlIncludes(u, p)

C19_AuthPagesDetected ==
    (pc = "exec" /\ bpc = "idle" /\ browser = "open")
    => (isOnLoginPage(browser, url) <=> (OnAuthPattern(url) \/ IsMfaPage(url)))

\* C20: a tick whose execution has clicked Save, that is whose navigation,
\* form steps and save all succeeded, ends with the job 'completed'.
C20_ScreenshotHarmless ==
    (TickOver /\ exec.saved)
    => /\ tick.exec = "ok"
       /\ jobs[job.id].status = "completed"

(***************************************************************************)
(* Properties of single calls (CallSpec).                                  *)
(***************************************************************************)
\* some option of the dropdown has exactly the title the call asks for
Exact ==
    \E i \in 1..Len(form.options) : form.options[i].title = referrerName

\* the running or last call of setOriginationFee did e to the form
Did(e) == \E i \in 1..Len(call.events) : call.events[i] = e

\* C21: setOriginationFee selects an option only when an option's title
\* equals the requested referrer name exactly, and the option it selects
\* has that title; when no title equals the name the call does not go past
\* the lookup and does not return: nothing is selected, no percentage is
\* typed, Save is not clicked, and the call that throws the not-found error
\* has printed the first titles of the dropdown, at most 10 of them.
C21_ExactMatchOnly ==
    call.state # "none" =>
        /\ Did("select") =>
              /\ Exact
              /\ \E i \in 1..Len(form.options) :
                    /\ form.options[i].title = referrerName
                    /\ form.options[i].value = form.selected
        /\ ~Exact =>
              /\ ~Did("select") /\ ~Did("type") /\ ~Did("save")
              /\ form.selected = 0
              /\ call.state # "returned"
              /\ fpc \in {"checkbox", "staff", "idle"}
        /\ call.reported # <<>> => ~Exact /\ call.state = "threw"
        /\ call.error = StaffNotFoundError =>
              /\ ~Exact
              /\ Len(call.reported) = Min(10, Len(form.options))
              /\ Len(call.reported) <= 10
              /\ \A i \in 1..Len(call.reported) :
                    call.reported[i] = form.options[i].title

\* a call that failed on a dropdown of more than 10 options, none of the
\* requested title, and printed 10 titles
C21_Witness ==
    /\ call.state = "threw"
    /\ call.error = StaffNotFoundError
    /\ Len(form.options) > 10
    /\ Len(call.reported) = 10
    /\ form.checked

\* the place of an event in the order of the steps of setOriginationFee
Rank(e) ==
    CASE e = "click checkbox" -> 1
      [] e = "select" -> 2
      [] e = "clear" -> 3
      [] e = "type" -> 4
      [] e = "save" -> 5

\* C22: what one call of setOriginationFee does to the form happens in the
\* order checkbox, staff selection, clearing and typing of the percentage,
\* Save; Save is clicked only when in that call the checkbox is checked, an
\* option was selected and the percentage was typed, so a call in which an
\* earlier step failed has not clicked Save.
C22_StepsInOrder ==
    call.state # "none" =>
        /\ \A i, j \in 1..Len(call.events) :
              i < j => Rank(call.events[i]) < Rank(call.events[j])
        /\ Did("select") => form.checked
        /\ Did("type") => Did("select") /\ Did("clear")
        /\ Did("save") =>
              /\ form.checked
              /\ Did("select") /\ form.selected # 0
              /\ Did("type") /\ form.field # <<>>
        /\ (call.state = "threw" /\ (~form.checked \/ ~Did("select") \/ ~Did("type")))
              => ~Did("save")

\* a call that went through the four steps, clicking the checkbox first,
\* and returned
C22_Witness ==
    /\ call.state = "returned"
    /\ call.events = <<"click checkbox", "select", "clear", "type", "save">>

\* C23: the checkbox step of setOriginationFee leaves the checkbox checked
\* whether or not it was checked before; it clicks the checkbox exactly
\* when it was not checked, and on a checked checkbox it changes nothing on
\* the form and throws nothing but an error of the page. No step of the
\* call ever unchecks a checked checkbox.
C23_CheckboxIdempotent ==
    [][/\ form.checked => form'.checked
       /\ (fpc = "checkbox" /\ fpc' = "staff") =>
             /\ form'.checked
             /\ IF form.checked
                THEN form' = form /\ call'.events = call.events
                ELSE call'.events = Append(call.events, "click checkbox")
       /\ (fpc = "checkbox" /\ fpc' = "idle" /\ form.checked) =>
             /\ form' = form
             /\ call'.events = call.events
             /\ call'.error \in
                   {CheckboxError, TargetClosed, ScreenshotError, NullPageError}
      ]_vars

\* the checkbox step has passed a checkbox that was already checked
\* without clicking it
C23_Witness ==
    /\ fpc = "staff"
    /\ form.checked
    /\ ~Did("click checkbox")

\* a decimal text of at most two fraction digits written with exactly two
TwoDecimals(text) ==
    [int |-> text.int,
     frac |-> [i \in 1..2 |-> IF i <= Len(text.frac) THEN text.frac[i] ELSE 0]]

\* a percentage in (0, 100] given with at most two fraction digits
InPercentRange(text) ==
    /\ Len(text.frac) <= 2
    /\ ParseFloat(text) > 0
    /\ ParseFloat(text) <= 100 * 1000

\* C29: once setOriginationFee has typed the percentage of a job whose
\* origination_percentage lies in (0, 100] and has at most two decimals,
\* the fee field holds that percentage written with exactly two decimals
\* and nothing else: what the field held before was cleared before the
\* typing.
C29_TwoDecimalsTyped ==
    (Did("type") /\ InPercentRange(feeJob.origination_percentage)) =>
        /\ form.field = <<TwoDecimals(feeJob.origination_percentage)>>
        /\ Len(form.field[1].frac) = 2
        /\ \E i, j \in 1..Len(call.events) :
              i < j /\ call.events[i] = "clear" /\ call.events[j] = "type"

\* 7.5 was typed as 7.50
C29_Witness ==
    /\ Did("type")
    /\ feeJob.origination_percentage = [int |-> 7, frac |-> <<5>>]
    /\ form.field = <<[int |-> 7, frac |-> <<5, 0>>]>>

\* C28: a call of close() that returns leaves the bot without a browser
\* (and page) and with isLoggedIn false; a call of close() on a bot that
\* holds no browser (a second close(), or a close() before any launch)
\* changes nothing and does not throw.
C28_CloseIdempotent ==
    [][Len(closeLog'.found) = Len(closeLog.found) + 1 =>
          /\ ~closeLog'.threw => browser' = "none" /\ ~isLoggedIn'
          /\ browser = "none" =>
                /\ ~closeLog'.threw
                /\ browser' = browser
                /\ isLoggedIn' = isLoggedIn
      ]_vars

\* close() has closed the browser of the bot, and a second close() has
\* found no browser
C28_Witness ==
    /\ closeLog.found = <<"open", "none">>
    /\ ~closeLog.threw
    /\ browser = "none"
    /\ ~isLoggedIn

(***************************************************************************)
(* Further properties of the processor (Spec).                             *)
(***************************************************************************)
\* C24: no step changes matter_id, client_participant_id, referrer_name,
\* origination_percentage, max_attempts or created_at of a job that
\* exists, no step removes a job, and a step that changes a job at all
\* changes the job the running tick has claimed (the local job of
\* processNextJob) and no other.
C24_ProcessorFrame ==
    [][\A j \in JobIds :
          /\ j <= Len(jobs')
          /\ jobs'[j].matter_id = jobs[j].matter_id
          /\ jobs'[j].client_participant_id = jobs[j].client_participant_id
          /\ jobs'[j].referrer_name = jobs[j].referrer_name
          /\ jobs'[j].origination_percentage = jobs[j].origination_percentage
          /\ jobs'[j].max_attempts = jobs[j].max_attempts
          /\ jobs'[j].created_at = jobs[j].created_at
          /\ jobs'[j] # jobs[j] => j = job.id /\ pc \in TickPcs
      ]_vars

\* the processor has recorded a failed attempt of one job while another
\* job is as its producer inserted it
C24_Witness ==
    /\ Len(jobs) = 2
    /\ \E j, k \in JobIds :
          /\ j # k
          /\ jobs[j].attempts = 1
          /\ jobs[j].error_message # NULL
          /\ jobs[k].status = "pending"
          /\ jobs[k].attempts = 0
          /\ jobs[k].started_at = NULL

\* the level of the log entry that matches the status an attempt ended in
OutcomeLevel(status) ==
    CASE status = "completed" -> "success"
      [] status = "pending" -> "warning"
      [] status = "failed" -> "error"

\* C25: every step leaves the entries the log already holds as they are
\* (the log only grows at its end), and when a tick is over whose attempt
\* was executed and ended with the job completed, reverted to pending or
\* failed, the tick has appended an entry for that job whose level is
\* success, warning or error respectively.
C25_AuditComplete ==
    /\ [][/\ Len(logs') >= Len(logs)
          /\ SubSeq(logs', 1, Len(logs)) = logs]_vars
    /\ []((/\ TickOver
           /\ tick.exec # "none"
           /\ jobs[job.id].status \in {"completed", "pending", "failed"})
          => \E i \in TickLogs :
                logs[i].status = OutcomeLevel(jobs[job.id].status))

\* C26: a SELECT for the next job is issued only by start() or after the
\* sleep of the poll loop, never straight from the handling of a job, and
\* the SELECTs of one tick return at most one job: between two claims (of
\* the same job after a failure, or of two jobs) the loop has slept.
C26_OneClaimPerTick ==
    /\ [][/\ (pc' = "select" /\ pc # "select") => pc \in {"new", "sleep"}
          /\ (job' # job /\ job' # NoJob) => pc = "select" /\ tick.claimed = 0
         ]_vars
    /\ [](tick.claimed <= 1)

\* a job that failed in an earlier tick is claimed again
C26_Witness ==
    /\ pc = "mark"
    /\ tick.claimed = 1
    /\ job.attempts = 1
    /\ hist[job.id].claims = 1

\* C27: start() begins polling exactly when init() has launched the browser
\* and logged in: then isRunning is set and the first SELECT is issued.
\* When init() fails start() rejects and the process exits with isRunning
\* false; that processor has claimed no job, changed no job and written no
\* log entry.
C27_StartGate ==
    /\ [][(pc = "new" /\ pc' # "new") =>
             IF browser' = "open" /\ isLoggedIn'
             THEN isRunning' /\ pc' = "select"
             ELSE ~isRunning' /\ pc' = "exited"
         ]_vars
    /\ []((pc = "exited" /\ stopPc = "none") =>
             /\ ~isRunning
             /\ ~isProcessing
             /\ job = NoJob
             /\ tick.claimed = 0
             /\ logs = <<>>
             /\ \A j \in JobIds :
                   /\ hist[j].claims = 0
                   /\ jobs[j].status = "pending"
                   /\ jobs[j].attempts = 0)

\* init() has failed at the login while a job was waiting
C27_Witness ==
    /\ pc = "exited"
    /\ stopPc = "none"
    /\ browser = "open"
    /\ ~isLoggedIn
    /\ jobs # <<>>

(***************************************************************************)
(* Further properties of the bot step by step (BotSpec).                   *)
(***************************************************************************)
\* C30: when ensureLoggedIn() has returned normally and navigateToMatter
\* is about to run, isLoggedIn is true, so navigateToMatter does not throw
\* 'Not logged in'; in particular a job that follows a failed login finds
\* the session authenticated again once its ensureLoggedIn() has returned.
C30_EnsureAuthenticates ==
    (pc = "exec" /\ bpc = "navigate" /\ exec.ensured) => isLoggedIn

\* C31: when the last call of login() has thrown, isLoggedIn is false,
\* whoever called it: start, the relaunch, ensureLoggedIn or the
\* session-expired branch of navigateToMatter.
C31_FailedLoginUnauthenticated ==
    lg.state = "threw" => ~isLoggedIn

\* C32: when a save begins no listener of an earlier save is still
\* registered on the page, also when the earlier save raised no dialog, so
\* no dialog is accepted by more than one listener.
C32_OneShotAcceptor ==
    /\ fpc = "save" => dialogs.armed = 0
    /\ dialogs.armed <= 1
    /\ dialogs.accepts <= 1

\* C33: Save is clicked at most once for a job, over all its attempts:
\* once an attempt has clicked Save the job is not executed again,
\* whatever fails after the click.
C33_SaveAtMostOnce ==
    \A j \in JobIds : hist[j].saves <= 1

C37_NavigateLeavesAuthPage ==
    (pc = "exec" /\ bpc = "fee") => ~isOnLoginPage(browser, url)

(***************************************************************************)
(* Properties of the worker beside other writers of the tables.            *)
(***************************************************************************)
\* a row that is 'processing' and that this Processor has never claimed
Leftover(j) == jobs[j].status = "processing" /\ hist[j].claims = 0

\* C36: a job that is 'processing' without this Processor having claimed
\* it is never selected by it and its row never changes: it is not
\* retried, completed or failed, and stays 'processing'.
C36_LeftoverUntouched ==
    [][\A j \in JobIds :
          Leftover(j) => /\ jobs'[j] = jobs[j]
                         /\ job'.id # j]_vars

\* the Processor has completed a younger job and the leftover is still there
C36_Witness ==
    \E j, k \in JobIds :
        /\ Leftover(j)
        /\ jobs[k].status = "completed"
        /\ jobs[j].created_at <= jobs[k].created_at
        /\ pc = "sleep"

C35_ClaimNotAtomic ==
    [][/\ (peer.pc = "mark" /\ peer'.pc # "mark")
             => /\ peer'.pc = "exec"
                /\ jobs'[peer.job.id].status = "processing"
       /\ (pc = "mark" /\ pc' # "mark" /\ storeFaults' = storeFaults)
             => /\ pc' = "exec"
                /\ jobs'[job.id].status = "processing"]_vars

\* both instances are executing the same job
C35_Witness ==
    /\ pc = "exec"
    /\ peer.pc = "exec"
    /\ job.id = peer.job.id

\* the jobs of a matter that are waiting or being worked on
OpenJobs(matterId) ==
    {j \in JobIds : /\ jobs[j].matter_id = matterId
                    /\ jobs[j].status \in {"pending", "processing"}}

\* C39: with every job created by the webhook, a matter has at most one
\* job that is 'pending' or 'processing', also between overlapping
\* requests and while the Processor works on the matter's job, and the
\* webhook creates no job for a matter that has a 'completed' job.
C39_WebhookDeduplicates ==
    /\ [](\A j \in JobIds : Cardinality(OpenJobs(jobs[j].matter_id)) <= 1)
    /\ [][\A j \in (Len(jobs) + 1)..Len(jobs') :
             \A k \in JobIds :
                jobs[k].matter_id = jobs'[j].matter_id
                   => jobs[k].status # "completed"]_vars
====
